---------------------------- MODULE Spec2Model ----------------------------
(***************************************************************************)
(* Ranking semantics over abstract argumentation frameworks (ArgRankLab):  *)
(* Cat, Dbs, Ser, the extension finders of the probabilistic family and    *)
(* the analytical p-Admissible scorer.                                     *)
(*                                                                         *)
(* An argumentation framework is a pair (nodes, attacks); arguments are    *)
(* the integers 1..n (the parser names them "1".."n").  Python floats are  *)
(* modelled by exact rationals <<numerator, denominator>>.                 *)
(***************************************************************************)
EXTENDS Integers, Sequences, FiniteSets, Bags, TLC

VARIABLES nodes, attacks, op, extensions, solver_pref, ranking,
          strengths, tolerance, max_iterations,
          discussion_vectors, max_path_length,
          serialisation_indices, ser_stack, max_depth,
          scores, log_scores, p,
          mc_class, num_samples, sample_i, acceptance_counts, subgraph_nodes,
          pending_samples, results_ready, results_seen, completed_count,
          normalized, norm_kind,
          h_pc, semantics_to_run_now, process, result_queue, rankings, h_outcome,
          timeout_marker, framework_timed_out, kendall_csv, spearman_csv,
          sat_nodes, sat_clauses, found_sets,
          sampler, sampler_class, all_nodes_len, use_fixed_size_heuristic, sample_size,
          feeder_item,
          util_vectors, sorted_arguments, util_max_len, current_power, path_length

catVars == <<strengths, tolerance, max_iterations>>

dbsVars == <<discussion_vectors, max_path_length>>

serVars == <<serialisation_indices, ser_stack, max_depth>>

padmVars == <<scores, log_scores, p>>

mcVars == <<mc_class, num_samples, sample_i, acceptance_counts, subgraph_nodes>>

poolVars == <<pending_samples, results_ready, results_seen, completed_count>>

normVars == <<normalized, norm_kind>>

harnessVars == <<h_pc, semantics_to_run_now, process, result_queue, rankings, h_outcome,
                 timeout_marker, framework_timed_out, kendall_csv, spearman_csv>>

solverVars == <<extensions, solver_pref, ranking, catVars, dbsVars, serVars, padmVars>>

driverVars == <<mcVars, poolVars, normVars, harnessVars>>

satVars == <<sat_nodes, sat_clauses, found_sets>>

shapeVars == <<sampler, sampler_class, all_nodes_len, use_fixed_size_heuristic, sample_size>>

pipeVars == <<feeder_item>>

utilVars == <<util_vectors, sorted_arguments, util_max_len, current_power, path_length>>

vars == <<nodes, attacks, op, extensions, solver_pref, ranking, catVars, dbsVars,
          serVars, padmVars, driverVars, satVars, shapeVars, pipeVars, utilVars>>

(***************************************************************************)
(* Bounds of the model.                                                    *)
(***************************************************************************)
MaxArgs == 3
MaxAttacks == 4
MaxSamples == 3

(***************************************************************************)
(* networkx.DiGraph views used by the solvers.                             *)
(***************************************************************************)
Graph(N, R) == [n |-> N, r |-> R]

HasEdge(G, a, b) == <<a, b>> \in G.r

Predecessors(G, a) == {b \in G.n : <<b, a>> \in G.r}

Successors(G, a) == {b \in G.n : <<a, b>> \in G.r}

Subgraph(G, S) ==
    [n |-> G.n \cap S, r |-> {e \in G.r : e[1] \in S /\ e[2] \in S}]

AF == Graph(nodes, attacks)

(***************************************************************************)
(* Sequences standing for Python lists.                                    *)
(***************************************************************************)
Range(s) == {s[i] : i \in 1..Len(s)}

RECURSIVE SortedList(_)
SortedList(S) ==
    IF S = {} THEN <<>>
    ELSE LET m == CHOOSE x \in S : \A y \in S : x <= y
         IN <<m>> \o SortedList(S \ {m})

(***************************************************************************)
(* ProbabilisticSemantics._is_conflict_free and _defends.                  *)
(***************************************************************************)
IsConflictFree(G, subset) ==
    \A arg1 \in subset : \A arg2 \in subset : ~HasEdge(G, arg1, arg2)

Defends(G, subset, argument) ==
    \A attacker \in Predecessors(G, argument) :
        \E defender \in subset : HasEdge(G, defender, attacker)

(***************************************************************************)
(* ProbGrounded._find_extensions_in_subgraph: rounds of the while loop.    *)
(***************************************************************************)
(* Mutant: the defender is looked for among all nodes of the subgraph. *)
NewlyAcceptedAnyDefender(G, accepted_args) ==
    {node \in G.n \ accepted_args :
        \/ Predecessors(G, node) = {}
        \/ \A attacker \in Predecessors(G, node) :
              \E defender \in G.n : HasEdge(G, defender, attacker)}

NewlyAccepted(G, accepted_args) ==
    {node \in G.n \ accepted_args :
        \/ Predecessors(G, node) = {}
        \/ \A attacker \in Predecessors(G, node) :
              \E defender \in accepted_args : HasEdge(G, defender, attacker)}

RECURSIVE GroundedLoop(_, _)
GroundedLoop(G, accepted_args) ==
    LET newly_accepted_args == NewlyAccepted(G, accepted_args)
    IN IF newly_accepted_args \subseteq accepted_args
       THEN accepted_args
       ELSE GroundedLoop(G, accepted_args \cup newly_accepted_args)

GroundedExtensions(G) ==
    IF G.n = {} THEN <<>>
    ELSE LET accepted_args == GroundedLoop(G, {})
         IN IF accepted_args # {} THEN <<accepted_args>> ELSE <<>>

(***************************************************************************)
(* ProbComplete / ProbPreferred ._find_admissible_recursively: the         *)
(* backtracking search find_and_check.  The conflict test compares the new *)
(* node with the nodes already in the candidate only.                      *)
(***************************************************************************)
IsConflicted(G, new_node, candidate_set) ==
    \E existing_node \in candidate_set :
        HasEdge(G, new_node, existing_node) \/ HasEdge(G, existing_node, new_node)

RECURSIVE FindAndCheck(_, _, _)
RECURSIVE ExploreFrom(_, _, _, _)
FindAndCheck(G, candidate_set, remaining_nodes) ==
    LET is_admissible == \A arg \in candidate_set : Defends(G, candidate_set, arg)
    IN (IF is_admissible THEN <<candidate_set>> ELSE <<>>)
       \o ExploreFrom(G, candidate_set, remaining_nodes, 1)

ExploreFrom(G, candidate_set, remaining_nodes, i) ==
    IF i > Len(remaining_nodes) THEN <<>>
    ELSE LET new_node == remaining_nodes[i]
             below == IF IsConflicted(G, new_node, candidate_set) THEN <<>>
                      ELSE FindAndCheck(G, candidate_set \cup {new_node},
                                        SubSeq(remaining_nodes, i + 1, Len(remaining_nodes)))
         IN below \o ExploreFrom(G, candidate_set, remaining_nodes, i + 1)

FindAdmissibleRecursively(G, node_list) == FindAndCheck(G, {}, node_list)

(***************************************************************************)
(* ProbComplete._find_extensions_in_subgraph.                              *)
(***************************************************************************)
DefendedBy(G, s) == {node \in G.n : Defends(G, s, node)}

CompleteExtensions(G) ==
    IF G.n = {} THEN <<>>
    ELSE SelectSeq(FindAdmissibleRecursively(G, SortedList(G.n)),
                   LAMBDA s : s = DefendedBy(G, s))

(***************************************************************************)
(* ProbPreferred._find_extensions_in_subgraph.                             *)
(***************************************************************************)
PreferredExtensions(G) ==
    LET admissible_sets == FindAdmissibleRecursively(G, SortedList(G.n))
        preferred_extensions ==
            SelectSeq(admissible_sets,
                      LAMBDA s1 : ~\E j \in 1..Len(admissible_sets) :
                                     s1 # admissible_sets[j] /\ s1 \subseteq admissible_sets[j])
    IN IF preferred_extensions = <<>> /\ {} \in Range(admissible_sets)
       THEN <<{}>>
       ELSE preferred_extensions

(***************************************************************************)
(* Exact rationals <<num, den>>, den > 0, in lowest terms: the model of    *)
(* the float arithmetic of Cat and of the analytical scorers.              *)
(***************************************************************************)
Abs(x) == IF x < 0 THEN -x ELSE x

RECURSIVE Gcd(_, _)
Gcd(a, b) == IF b = 0 THEN a ELSE Gcd(b, a % b)

Rat(num, den) ==
    LET g == Gcd(Abs(num), Abs(den))
        sgn == IF den < 0 THEN -1 ELSE 1
    IN <<sgn * (num \div g), sgn * (den \div g)>>

RZero == <<0, 1>>

ROne == <<1, 1>>

RAdd(x, y) == Rat(x[1] * y[2] + y[1] * x[2], x[2] * y[2])

RSub(x, y) == Rat(x[1] * y[2] - y[1] * x[2], x[2] * y[2])

RMul(x, y) == Rat(x[1] * y[1], x[2] * y[2])

RInv(x) == Rat(x[2], x[1])

RAbs(x) == <<Abs(x[1]), x[2]>>

RLess(x, y) == x[1] * y[2] < y[1] * x[2]

RECURSIVE RSum(_, _)
RSum(f, S) ==
    IF S = {} THEN RZero
    ELSE LET x == CHOOSE x \in S : TRUE
         IN RAdd(f[x], RSum(f, S \ {x}))

(***************************************************************************)
(* Cat._calculate_strengths: one vectorised update, and the for loop with  *)
(* its convergence test (infinity norm of the change below tolerance).     *)
(***************************************************************************)
(* Mutant: the adjacency matrix is used without the transpose, so that an
   argument is weakened by the arguments it attacks. *)
CatUpdateNoTranspose(G, old_strengths) ==
    [a \in G.n |-> RInv(RAdd(ROne, RSum(old_strengths, Successors(G, a))))]

CatUpdate(G, old_strengths) ==
    [a \in G.n |-> RInv(RAdd(ROne, RSum(old_strengths, Predecessors(G, a))))]

Converged(G, strengths_vector, old_strengths, tol) ==
    \A a \in G.n : RLess(RAbs(RSub(strengths_vector[a], old_strengths[a])), tol)

RECURSIVE CatLoop(_, _, _, _, _)
CatLoop(G, old_strengths, i, tol, max_iter) ==
    IF i >= max_iter THEN old_strengths
    ELSE LET strengths_vector == CatUpdate(G, old_strengths)
         IN IF Converged(G, strengths_vector, old_strengths, tol)
            THEN strengths_vector
            ELSE CatLoop(G, strengths_vector, i + 1, tol, max_iter)

CalculateStrengths(G, tol, max_iter) ==
    IF G.n = {} THEN <<>>
    ELSE CatLoop(G, [a \in G.n |-> RZero], 0, tol, max_iter)

(***************************************************************************)
(* sorted(list, key): Python's sort is stable; before[x, y] holds when x's *)
(* key is strictly smaller than y's in the sort order.                     *)
(***************************************************************************)
RECURSIVE InsertStable(_, _, _)
InsertStable(s, x, before) ==
    IF s = <<>> THEN <<x>>
    ELSE IF before[x, s[Len(s)]]
         THEN InsertStable(SubSeq(s, 1, Len(s) - 1), x, before) \o <<s[Len(s)]>>
         ELSE s \o <<x>>

RECURSIVE StableSort(_, _)
StableSort(s, before) ==
    IF s = <<>> THEN <<>>
    ELSE InsertStable(StableSort(SubSeq(s, 1, Len(s) - 1), before), s[Len(s)], before)

(***************************************************************************)
(* The grouping loop shared by Cat._build_ranking and Dbs._calculate_all:  *)
(* an argument joins the group of its predecessor in sorted order when     *)
(* same[curr, prev] holds, and otherwise opens a new group.                *)
(***************************************************************************)
RECURSIVE GroupConsecutive(_, _, _, _, _)
GroupConsecutive(sorted_args, i, groups, current_rank_group, same) ==
    IF i > Len(sorted_args) THEN groups \o <<current_rank_group>>
    ELSE IF same[sorted_args[i], sorted_args[i - 1]]
         THEN GroupConsecutive(sorted_args, i + 1, groups,
                               current_rank_group \cup {sorted_args[i]}, same)
         ELSE GroupConsecutive(sorted_args, i + 1, groups \o <<current_rank_group>>,
                               {sorted_args[i]}, same)

(***************************************************************************)
(* Cat._build_ranking.                                                     *)
(***************************************************************************)
(* Mutant: the arguments are sorted by ascending strength. *)
BuildRankingAscending(G, strengths_map, tol) ==
    IF strengths_map = <<>> THEN <<>>
    ELSE LET sorted_args ==
                 StableSort(SortedList(G.n),
                            [x \in G.n, y \in G.n |->
                                RLess(strengths_map[x], strengths_map[y])])
         IN GroupConsecutive(sorted_args, 2, <<>>, {sorted_args[1]},
                [c \in G.n, q \in G.n |->
                    RLess(RAbs(RSub(strengths_map[c], strengths_map[q])), tol)])

BuildRanking(G, strengths_map, tol) ==
    IF strengths_map = <<>> THEN <<>>
    ELSE LET sorted_args ==
                 StableSort(SortedList(G.n),
                            [x \in G.n, y \in G.n |->
                                RLess(strengths_map[y], strengths_map[x])])
         IN GroupConsecutive(sorted_args, 2, <<>>, {sorted_args[1]},
                [c \in G.n, q \in G.n |->
                    RLess(RAbs(RSub(strengths_map[c], strengths_map[q])), tol)])

(***************************************************************************)
(* Parameters the Cat constructor is given: any tolerance and any          *)
(* iteration count are accepted (defaults 1e-8 and 1000).                  *)
(***************************************************************************)
MaxIter == 4

Tolerances == {<<1, 1000>>, <<1, 4>>, <<1, 1>>, <<2, 1>>}

(***************************************************************************)
(* Dbs._calculate_discussion_vector: powers of the adjacency matrix        *)
(* (adj_matrix[i, j] = 1 iff i attacks j) and column sums.                 *)
(***************************************************************************)
RECURSIVE IntSum(_, _)
IntSum(f, S) ==
    IF S = {} THEN 0
    ELSE LET x == CHOOSE x \in S : TRUE
         IN f[x] + IntSum(f, S \ {x})

AdjMatrix(G) == [i \in G.n, j \in G.n |-> IF HasEdge(G, i, j) THEN 1 ELSE 0]

MatMul(G, A, B) ==
    [i \in G.n, j \in G.n |-> IntSum([k \in G.n |-> A[i, k] * B[k, j]], G.n)]

(* Mutant: the row of the argument is summed instead of its column. *)
RowSum(G, m_power, arg_index) == IntSum([j \in G.n |-> m_power[arg_index, j]], G.n)

ColumnSum(G, m_power, arg_index) == IntSum([i \in G.n |-> m_power[i, arg_index]], G.n)

RECURSIVE DisLoop(_, _, _, _, _, _)
DisLoop(G, m_power, i, argument, dis_vector, max_len) ==
    IF i > max_len THEN dis_vector
    ELSE LET num_paths == ColumnSum(G, m_power, argument)
             entry == IF i % 2 # 0 THEN num_paths ELSE -num_paths
             next_power == IF i < max_len THEN MatMul(G, m_power, AdjMatrix(G))
                           ELSE m_power
         IN DisLoop(G, next_power, i + 1, argument,
                    [dis_vector EXCEPT ![i] = entry], max_len)

CalculateDiscussionVector(G, argument, max_len) ==
    DisLoop(G, AdjMatrix(G), 1, argument, [k \in 1..max_len |-> 0], max_len)

(***************************************************************************)
(* Dbs._calculate_all: vectors, then the sort by vector (Python compares   *)
(* lists lexicographically) and the grouping of equal vectors.             *)
(***************************************************************************)
(* Mutant: only the first entries of the vectors are compared. *)
LexLessFirstEntry(u, v) ==
    IF u = <<>> THEN v # <<>>
    ELSE IF v = <<>> THEN FALSE
    ELSE u[1] < v[1]

RECURSIVE LexLess(_, _)
LexLess(u, v) ==
    IF u = <<>> THEN v # <<>>
    ELSE IF v = <<>> THEN FALSE
    ELSE IF u[1] # v[1] THEN u[1] < v[1]
    ELSE LexLess(Tail(u), Tail(v))

DiscussionVectors(G, max_len) ==
    [arg \in G.n |-> CalculateDiscussionVector(G, arg, max_len)]

DbsRanking(G, vecs) ==
    LET sorted_args ==
            StableSort(SortedList(G.n),
                       [x \in G.n, y \in G.n |-> LexLess(vecs[x], vecs[y])])
    IN IF sorted_args = <<>> THEN <<>>
       ELSE GroupConsecutive(sorted_args, 2, <<>>, {sorted_args[1]},
                             [c \in G.n, q \in G.n |-> vecs[c] = vecs[q]])

MaxLen == 4

(***************************************************************************)
(* numpy int64 (af_parser.calculate_dbs builds its matrices with           *)
(* dtype=np.int64): a word is a sequence of 16-bit limbs, least            *)
(* significant first; addition and negation wrap modulo 2^64, the sign is  *)
(* the top bit (two's complement).  Words of another length follow the     *)
(* same rules modulo 2^(16 * length).                                      *)
(***************************************************************************)
Int64Bits == 64

LimbBits == 16

LimbBase == 2 ^ LimbBits

Int64Limbs == Int64Bits \div LimbBits

WordOf(value, limbs) == [i \in 1..limbs |-> IF i = 1 THEN value ELSE 0]

RECURSIVE AddLimbs(_, _, _, _)
AddLimbs(x, y, i, carry) ==
    IF i > Len(x) THEN <<>>
    ELSE LET total == x[i] + y[i] + carry
         IN <<total % LimbBase>> \o AddLimbs(x, y, i + 1, total \div LimbBase)

WordAdd(x, y) == AddLimbs(x, y, 1, 0)

WordNeg(x) ==
    WordAdd([i \in 1..Len(x) |-> (LimbBase - 1) - x[i]], WordOf(1, Len(x)))

WordIsNegative(x) == x[Len(x)] >= LimbBase \div 2

RECURSIVE MagnitudeLess(_, _, _)
MagnitudeLess(x, y, i) ==
    IF i = 0 THEN FALSE
    ELSE IF x[i] # y[i] THEN x[i] < y[i]
    ELSE MagnitudeLess(x, y, i - 1)

WordLess(x, y) ==
    IF WordIsNegative(x) # WordIsNegative(y) THEN WordIsNegative(x)
    ELSE MagnitudeLess(x, y, Len(x))

RECURSIVE WordSum(_, _, _)
WordSum(f, S, limbs) ==
    IF S = {} THEN WordOf(0, limbs)
    ELSE LET x == CHOOSE x \in S : TRUE
         IN WordAdd(f[x], WordSum(f, S \ {x}, limbs))

(***************************************************************************)
(* af_parser.calculate_dbs: powers of the transposed adjacency matrix, row *)
(* sums, and the early exit when a power has no stored entry.              *)
(***************************************************************************)
TransposedAdjacency(G, limbs) ==
    [i \in G.n, j \in G.n |-> WordOf(IF HasEdge(G, j, i) THEN 1 ELSE 0, limbs)]

SparseDot(G, power, limbs) ==
    [i \in G.n, j \in G.n |->
        WordSum([k \in G.n |-> power[i, k]], Successors(G, j), limbs)]

Nnz(G, power, limbs) ==
    Cardinality({ij \in G.n \X G.n : power[ij[1], ij[2]] # WordOf(0, limbs)})

RowSums(G, power, limbs) ==
    [i \in G.n |-> WordSum([j \in G.n |-> power[i, j]], G.n, limbs)]

RECURSIVE WordLexLess(_, _)
WordLexLess(u, v) ==
    IF u = <<>> THEN v # <<>>
    ELSE IF v = <<>> THEN FALSE
    ELSE IF u[1] # v[1] THEN WordLess(u[1], v[1])
    ELSE WordLexLess(Tail(u), Tail(v))

EffectiveMaxLen(G, given_max_len) ==
    IF given_max_len <= 0 THEN Cardinality(G.n) ELSE given_max_len

(***************************************************************************)
(* The SAT solver hands back some model of the clauses it holds; which one *)
(* is the solver's choice.  solver_pref fixes that choice for a run.       *)
(***************************************************************************)
SolverPrefs == {"small", "large"}

PickModel(models, pref) ==
    IF pref = "small"
    THEN CHOOSE M \in models : \A M2 \in models : Cardinality(M) <= Cardinality(M2)
    ELSE CHOOSE M \in models : \A M2 \in models : Cardinality(M) >= Cardinality(M2)

(***************************************************************************)
(* Ser._encode_admissible: clauses are sets of literals, a for "a is in",  *)
(* -a for "a is out" (arg_map numbers the arguments of the graph).         *)
(***************************************************************************)
Satisfies(M, clause) ==
    \E l \in clause : (l > 0 /\ l \in M) \/ (l < 0 /\ (-l) \notin M)

Models(G, clauses) == {M \in SUBSET G.n : \A c \in clauses : Satisfies(M, c)}

EncodeAdmissible(G) ==
    {{-e[1], -e[2]} : e \in G.r}
    \cup UNION {{{-a} \cup Predecessors(G, b) : b \in Predecessors(G, a)} : a \in G.n}

(***************************************************************************)
(* Ser._find_initial_sets_sat: the enumeration loop with the minimality    *)
(* check on a second solver and the blocking clauses.                      *)
(***************************************************************************)
(* Mutant: the minimality check never finds a smaller set. *)
HasSmallerAdmissibleNever(G, base_clauses, current_admissible_set) == FALSE

HasSmallerAdmissible(G, base_clauses, current_admissible_set) ==
    Models(G, base_clauses
              \cup {{-node} : node \in G.n \ current_admissible_set}
              \cup {{-arg : arg \in current_admissible_set}}) # {}

RECURSIVE SatEnumerate(_, _, _, _, _)
SatEnumerate(G, base_clauses, clauses, initial_sets, pref) ==
    LET models == Models(G, clauses)
    IN IF models = {} THEN initial_sets
       ELSE LET current_admissible_set == PickModel(models, pref)
                is_minimal ==
                    IF Cardinality(current_admissible_set) > 1
                    THEN ~HasSmallerAdmissible(G, base_clauses, current_admissible_set)
                    ELSE TRUE
                blocking_clause == {-arg : arg \in current_admissible_set}
            IN IF is_minimal
               THEN SatEnumerate(G, base_clauses, clauses \cup {blocking_clause},
                                 Append(initial_sets, current_admissible_set), pref)
               ELSE SatEnumerate(G, base_clauses, clauses \cup {blocking_clause},
                                 initial_sets, pref)

FindInitialSetsSat(G, pref) ==
    IF G.n = {} THEN <<>>
    ELSE LET base_clauses == EncodeAdmissible(G) \cup {G.n}
         IN SatEnumerate(G, base_clauses, base_clauses, <<>>, pref)

(***************************************************************************)
(* The loop of Ser._find_initial_sets_sat step by step, on the subgraph    *)
(* induced by sat_nodes: solver.solve() may hand back any model of the     *)
(* clauses it holds.  sat_clauses are the blocking clauses added so far.   *)
(***************************************************************************)
SatGraph == Subgraph(AF, sat_nodes)

BaseClauses(G) == EncodeAdmissible(G) \cup {G.n}

SolverModels == Models(SatGraph, BaseClauses(SatGraph) \cup sat_clauses)

FindInitialSetsStart ==
    /\ op = "idle"
    /\ \E S \in SUBSET nodes :
          /\ Cardinality(S) <= MaxArgs
          /\ sat_nodes' = S
          /\ op' = IF S = {} THEN "sat_done" ELSE "sat"
    /\ sat_clauses' = {}
    /\ found_sets' = <<>>
    /\ UNCHANGED <<nodes, attacks, solverVars, driverVars>>
    /\ UNCHANGED shapeVars
    /\ UNCHANGED pipeVars
    /\ UNCHANGED utilVars

SolverReturnsModel ==
    /\ op = "sat"
    /\ \E current_admissible_set \in SolverModels :
          LET is_minimal ==
                  IF Cardinality(current_admissible_set) > 1
                  THEN ~HasSmallerAdmissible(SatGraph, BaseClauses(SatGraph),
                                             current_admissible_set)
                  ELSE TRUE
              blocking_clause == {-arg : arg \in current_admissible_set}
          IN /\ found_sets' = IF is_minimal
                                THEN Append(found_sets, current_admissible_set)
                                ELSE found_sets
             /\ sat_clauses' = sat_clauses \cup {blocking_clause}
    /\ UNCHANGED <<nodes, attacks, op, sat_nodes, solverVars, driverVars>>
    /\ UNCHANGED shapeVars
    /\ UNCHANGED pipeVars
    /\ UNCHANGED utilVars

SolverUnsat ==
    /\ op = "sat"
    /\ SolverModels = {}
    /\ op' = "sat_done"
    /\ UNCHANGED <<nodes, attacks, satVars, solverVars, driverVars>>
    /\ UNCHANGED shapeVars
    /\ UNCHANGED pipeVars
    /\ UNCHANGED utilVars

(***************************************************************************)
(* Ser: float('inf') is the index of an argument no step has reached.      *)
(***************************************************************************)
Infinity == 1000000

(* Mutant: the index is overwritten by the current step. *)
MinAsLastWrite(a, b) == b

Min(a, b) == IF a <= b THEN a ELSE b

(* Mutant: the attackers of the set are collected instead of the arguments
   it attacks. *)
GetAttackedSetPredecessors(G, source_set) == UNION {Predecessors(G, arg) : arg \in source_set}

GetAttackedSet(G, source_set) == UNION {Successors(G, arg) : arg \in source_set}

(* Mutant: the arguments attacked by the accepted set stay in the reduct. *)
NodesForReductKeepAttacked(G, accepted_set) == G.n \ accepted_set

NodesForReduct(G, accepted_set) ==
    (G.n \ accepted_set) \ GetAttackedSet(G, accepted_set)

(***************************************************************************)
(* Ser._explore_sequences_pruned up to its for loop: the initial sets the  *)
(* call iterates over, none when the call returns early.                   *)
(***************************************************************************)
(* Mutant: the reduct is explored only when every argument in it could
   still improve. *)
CanImproveAll(G, indices, accepted_set, step) ==
    \A arg \in NodesForReduct(G, accepted_set) : indices[arg] > step

CanImprove(G, indices, accepted_set, step) ==
    \E arg \in NodesForReduct(G, accepted_set) : indices[arg] > step

(* Mutant: the depth test is missing. *)
ExploreEntryAnyDepth(G, indices, accepted_set, step, depth, pref) ==
    IF ~CanImprove(G, indices, accepted_set, step) THEN {}
    ELSE Range(FindInitialSetsSat(Subgraph(G, NodesForReduct(G, accepted_set)), pref))

ExploreEntry(G, indices, accepted_set, step, depth, pref) ==
    IF step > depth THEN {}
    ELSE IF ~CanImprove(G, indices, accepted_set, step) THEN {}
    ELSE Range(FindInitialSetsSat(Subgraph(G, NodesForReduct(G, accepted_set)), pref))

(***************************************************************************)
(* Ser._calculate_ranking_hybrid_pruned, lines 40-44: sort by index and    *)
(* group equal indices.                                                    *)
(***************************************************************************)
SerRanking(G, indices) ==
    LET sorted_args ==
            StableSort(SortedList(G.n),
                       [x \in G.n, y \in G.n |-> indices[x] < indices[y]])
    IN IF sorted_args = <<>> THEN <<>>
       ELSE GroupConsecutive(sorted_args, 2, <<>>, {sorted_args[1]},
                             [c \in G.n, q \in G.n |-> indices[c] = indices[q]])

MaxDepth == 3

(***************************************************************************)
(* ProbAdmissible._calculate_scores.                                       *)
(***************************************************************************)
RECURSIVE RProd(_, _)
RProd(f, S) ==
    IF S = {} THEN ROne
    ELSE LET x == CHOOSE x \in S : TRUE
         IN RMul(f[x], RProd(f, S \ {x}))

(* Mutant: the counter-attack of arg_a on its attacker is not credited. *)
ProbCounterAttackedNever(G, arg_a, arg_b, prob) == RSub(ROne, prob)

ProbCounterAttacked(G, arg_a, arg_b, prob) ==
    IF HasEdge(G, arg_a, arg_b)
    THEN RAdd(RSub(ROne, prob), prob)
    ELSE RSub(ROne, prob)

AdmissibleScores(G, prob) ==
    [arg_a \in G.n |->
        LET prob_a_exists == prob
            prob_a_is_cf == IF ~HasEdge(G, arg_a, arg_a) THEN ROne ELSE RZero
            prob_a_is_defended ==
                RProd([arg_b \in G.n |-> ProbCounterAttacked(G, arg_a, arg_b, prob)],
                      Predecessors(G, arg_a) \ {arg_a})
        IN RMul(RMul(prob_a_exists, prob_a_is_cf), prob_a_is_defended)]

Probabilities == {<<0, 1>>, <<1, 3>>, <<1, 2>>, <<2, 3>>, <<1, 1>>}

(***************************************************************************)
(* ProbStable._calculate_scores.  A log-score is kept symbolically as the  *)
(* pair of integer coefficients of log_p and log_1_minus_p, or as -inf.    *)
(***************************************************************************)
LogScore(coef_log_p, coef_log_1_minus_p) ==
    [neg_inf |-> FALSE, log_p |-> coef_log_p, log_1_minus_p |-> coef_log_1_minus_p]

NegInf == [neg_inf |-> TRUE, log_p |-> 0, log_1_minus_p |-> 0]

OutDegree(G, a) == Cardinality(Successors(G, a))

(* Mutant: the argument itself is counted among those it does not attack. *)
NumNonAttackedCountingSelf(G, arg_a) == Cardinality(G.n) - OutDegree(G, arg_a)

NumNonAttacked(G, arg_a) == (Cardinality(G.n) - 1) - OutDegree(G, arg_a)

StableScores(G) ==
    [arg_a \in G.n |->
        IF HasEdge(G, arg_a, arg_a) THEN NegInf
        ELSE LogScore(1, NumNonAttacked(G, arg_a))]

(* math.log raises ValueError at 0: p = 0 fails at log(p), p = 1 at log(1 - p). *)
LogDefined(prob) == RLess(RZero, prob)

(***************************************************************************)
(* ProbIdeal._get_complete_encoding is called at prob_ideal.py:23 and is   *)
(* defined nowhere in the sources at hand; it is modelled from section 4.6 *)
(* of the specification: the CNF of the three-valued labelling, OUT_a iff  *)
(* some attacker is IN, IN_a iff every attacker is OUT.  The models'       *)
(* IN-sets are what the caller reads back (variables 1..N).                *)
(***************************************************************************)
CompleteLabellings(G) ==
    {L \in [G.n -> {"in", "out", "undec"}] :
        \A a \in G.n :
            /\ (L[a] = "out") <=> (\E b \in Predecessors(G, a) : L[b] = "in")
            /\ (L[a] = "in") <=> (\A b \in Predecessors(G, a) : L[b] = "out")}

GetCompleteEncoding(G) ==
    {{a \in G.n : L[a] = "in"} : L \in CompleteLabellings(G)}

(***************************************************************************)
(* ProbIdeal._find_admissible_attacker_of; None is modelled by {} (the     *)
(* caller tests "if not S").                                               *)
(***************************************************************************)
FindAdmissibleAttackerOf(G, candidate_set_P, pref) ==
    LET potential_attacker_vars ==
            UNION {Predecessors(G, arg) : arg \in candidate_set_P}
        models == {S \in GetCompleteEncoding(G) : S \cap potential_attacker_vars # {}}
    IN IF candidate_set_P = {} \/ potential_attacker_vars = {} \/ models = {}
       THEN {}
       ELSE PickModel(models, pref)

(***************************************************************************)
(* ProbIdeal._find_extensions_in_subgraph: phase 1 (preferred super-core)  *)
(* and phase 2 (largest self-defending subset of the subgraph on P).       *)
(***************************************************************************)
RECURSIVE SuperCore(_, _, _)
SuperCore(G, P, pref) ==
    LET S == FindAdmissibleAttackerOf(G, P, pref)
        attacked_by_S == UNION {Successors(G, s_arg) : s_arg \in S}
    IN IF S = {} THEN P ELSE SuperCore(G, P \ attacked_by_S, pref)

RECURSIVE LargestSelfDefending(_)
LargestSelfDefending(p_subgraph) ==
    LET removed_in_iteration ==
            {p_arg \in p_subgraph.n :
                ~\A att \in Predecessors(p_subgraph, p_arg) :
                    \E d \in p_subgraph.n : HasEdge(p_subgraph, d, att)}
    IN IF removed_in_iteration = {}
       THEN p_subgraph.n
       ELSE LargestSelfDefending(Subgraph(p_subgraph, p_subgraph.n \ removed_in_iteration))

IdealExtensions(G, pref) ==
    IF G.n = {} THEN <<{}>>
    ELSE <<LargestSelfDefending(Subgraph(G, SuperCore(G, G.n, pref)))>>

(***************************************************************************)
(* The frameworks the model runs on: the frameworks over 1..n, n up to     *)
(* MaxArgs, with at most MaxAttacks attacks (self-loops permitted), one    *)
(* per renaming of the arguments, and the fixtures of the test suite.      *)
(***************************************************************************)
RECURSIVE SubsetsUpTo(_, _)
SubsetsUpTo(E, k) ==
    IF k = 0 THEN {{}}
    ELSE LET smaller == SubsetsUpTo(E, k - 1)
         IN smaller \cup {S \cup {e} : S \in smaller, e \in E}

Renamings(n) == {f \in [1..n -> 1..n] : \A a, b \in 1..n : f[a] = f[b] => a = b}

AttackCode(n, R) ==
    IntSum([e \in R |-> 2 ^ ((e[1] - 1) * n + (e[2] - 1))], R)

IsCanonical(n, R) ==
    \A f \in Renamings(n) : AttackCode(n, R) <= AttackCode(n, {<<f[e[1]], f[e[2]]>> : e \in R})

SmallAFs ==
    UNION {{Graph(1..n, R) : R \in {Q \in SubsetsUpTo((1..n) \X (1..n), MaxAttacks) :
                                        IsCanonical(n, Q)}} : n \in 0..MaxArgs}

split_defense_framework ==
    Graph(1..4, {<<1, 3>>, <<2, 3>>, <<3, 4>>, <<4, 3>>})

AF_ex ==
    Graph(1..8, {<<1, 2>>, <<1, 4>>, <<1, 5>>, <<2, 3>>, <<6, 3>>,
                 <<7, 4>>, <<8, 7>>, <<4, 8>>, <<5, 8>>})

Frameworks == SmallAFs \cup {split_defense_framework, AF_ex}

Init ==
    /\ \E G \in Frameworks : nodes = G.n /\ attacks = G.r
    /\ op = "idle"
    /\ extensions = <<>>
    /\ solver_pref = "small"
    /\ strengths = <<>>
    /\ ranking = <<>>
    /\ tolerance = <<0, 1>>
    /\ max_iterations = 0
    /\ discussion_vectors = <<>>
    /\ max_path_length = 0
    /\ serialisation_indices = <<>>
    /\ ser_stack = <<>>
    /\ max_depth = 0
    /\ scores = <<>>
    /\ log_scores = <<>>
    /\ p = <<0, 1>>
    /\ mc_class = "none"
    /\ num_samples = 0
    /\ sample_i = 0
    /\ acceptance_counts = <<>>
    /\ subgraph_nodes = {}
    /\ pending_samples = 0
    /\ results_ready = EmptyBag
    /\ results_seen = EmptyBag
    /\ completed_count = 0
    /\ normalized = <<>>
    /\ norm_kind = "none"
    /\ h_pc = "off"
    /\ semantics_to_run_now = <<>>
    /\ process = "none"
    /\ result_queue = <<>>
    /\ rankings = <<>>
    /\ h_outcome = "none"
    /\ timeout_marker = FALSE
    /\ framework_timed_out = FALSE
    /\ kendall_csv = FALSE
    /\ spearman_csv = FALSE
    /\ sat_nodes = {}
    /\ sat_clauses = {}
    /\ found_sets = <<>>
    /\ sampler = "none"
    /\ sampler_class = "none"
    /\ all_nodes_len = 0
    /\ use_fixed_size_heuristic = FALSE
    /\ sample_size = 0
    /\ feeder_item = "none"
    /\ util_vectors = <<>>
    /\ sorted_arguments = <<>>
    /\ util_max_len = 0
    /\ current_power = <<>>
    /\ path_length = 0

RunGrounded ==
    /\ op = "idle"
    /\ op' = "grounded"
    /\ extensions' = GroundedExtensions(AF)
    /\ UNCHANGED <<nodes, attacks, solver_pref, ranking, catVars, dbsVars, serVars, padmVars>>
    /\ UNCHANGED driverVars
    /\ UNCHANGED satVars
    /\ UNCHANGED shapeVars
    /\ UNCHANGED pipeVars
    /\ UNCHANGED utilVars

RunComplete ==
    /\ op = "idle"
    /\ op' = "complete"
    /\ extensions' = CompleteExtensions(AF)
    /\ UNCHANGED <<nodes, attacks, solver_pref, ranking, catVars, dbsVars, serVars, padmVars>>
    /\ UNCHANGED driverVars
    /\ UNCHANGED satVars
    /\ UNCHANGED shapeVars
    /\ UNCHANGED pipeVars
    /\ UNCHANGED utilVars

RunPreferred ==
    /\ op = "idle"
    /\ op' = "preferred"
    /\ extensions' = PreferredExtensions(AF)
    /\ UNCHANGED <<nodes, attacks, solver_pref, ranking, catVars, dbsVars, serVars, padmVars>>
    /\ UNCHANGED driverVars
    /\ UNCHANGED satVars
    /\ UNCHANGED shapeVars
    /\ UNCHANGED pipeVars
    /\ UNCHANGED utilVars

RunIdeal ==
    /\ op = "idle"
    /\ \E pref \in SolverPrefs :
          /\ solver_pref' = pref
          /\ extensions' = IdealExtensions(AF, pref)
    /\ op' = "ideal"
    /\ UNCHANGED <<nodes, attacks, ranking, catVars, dbsVars, serVars, padmVars>>
    /\ UNCHANGED driverVars
    /\ UNCHANGED satVars
    /\ UNCHANGED shapeVars
    /\ UNCHANGED pipeVars
    /\ UNCHANGED utilVars

RunCat ==
    /\ op = "idle"
    /\ \E tol \in Tolerances, max_iter \in 0..MaxIter :
          /\ tolerance' = tol
          /\ max_iterations' = max_iter
          /\ strengths' = CalculateStrengths(AF, tol, max_iter)
          /\ ranking' = BuildRanking(AF, strengths', tol)
    /\ op' = "cat"
    /\ UNCHANGED <<nodes, attacks, extensions, solver_pref, dbsVars, serVars, padmVars>>
    /\ UNCHANGED driverVars
    /\ UNCHANGED satVars
    /\ UNCHANGED shapeVars
    /\ UNCHANGED pipeVars
    /\ UNCHANGED utilVars

RunDbs ==
    /\ op = "idle"
    /\ \E L \in 0..MaxLen :
          /\ max_path_length' = L
          /\ discussion_vectors' = DiscussionVectors(AF, L)
          /\ ranking' = DbsRanking(AF, discussion_vectors')
    /\ op' = "dbs"
    /\ UNCHANGED <<nodes, attacks, extensions, solver_pref, strengths, tolerance,
                   max_iterations, serVars, padmVars>>
    /\ UNCHANGED driverVars
    /\ UNCHANGED satVars
    /\ UNCHANGED shapeVars
    /\ UNCHANGED pipeVars
    /\ UNCHANGED utilVars

(***************************************************************************)
(* Ser.__init__ and _calculate_ranking_hybrid_pruned up to the first call  *)
(* of _explore_sequences_pruned.  ser_stack holds the for loops in         *)
(* progress: the accepted set and step of the call, and the initial sets   *)
(* its loop has still to visit (the list order is the solver's).           *)
(***************************************************************************)
Frame(accepted_set, step, todo) == [accepted |-> accepted_set, step |-> step, todo |-> todo]

SerStart ==
    /\ op = "idle"
    /\ \E depth \in 0..MaxDepth, pref \in SolverPrefs :
          LET initial_sets_step1 == Range(FindInitialSetsSat(AF, pref))
          IN /\ max_depth' = depth
             /\ solver_pref' = pref
             /\ IF initial_sets_step1 = {}
                THEN /\ serialisation_indices' = [arg \in nodes |-> Infinity]
                     /\ ser_stack' = <<>>
                     /\ ranking' = <<>>
                     /\ op' = "ser_done"
                ELSE /\ serialisation_indices' =
                           [arg \in nodes |-> IF arg \in UNION initial_sets_step1
                                              THEN 1 ELSE Infinity]
                     /\ ser_stack' = <<Frame({}, 1, initial_sets_step1)>>
                     /\ ranking' = <<>>
                     /\ op' = "ser"
    /\ UNCHANGED <<nodes, attacks, extensions, catVars, dbsVars, padmVars>>
    /\ UNCHANGED driverVars
    /\ UNCHANGED satVars
    /\ UNCHANGED shapeVars
    /\ UNCHANGED pipeVars
    /\ UNCHANGED utilVars

(***************************************************************************)
(* One iteration of a for loop over initial sets: the index update and the *)
(* recursive call, which either returns at once or starts its own loop.    *)
(***************************************************************************)
SerVisit ==
    /\ op = "ser"
    /\ ser_stack # <<>>
    /\ LET top == ser_stack[Len(ser_stack)]
       IN /\ top.todo # {}
          /\ \E s_i \in top.todo :
                LET indices == [arg \in nodes |->
                                   IF arg \in s_i
                                   THEN Min(serialisation_indices[arg], top.step)
                                   ELSE serialisation_indices[arg]]
                    new_accepted_set == top.accepted \cup s_i
                    initial_sets == ExploreEntry(AF, indices, new_accepted_set,
                                                 top.step + 1, max_depth, solver_pref)
                    rest == [ser_stack EXCEPT ![Len(ser_stack)].todo = top.todo \ {s_i}]
                IN /\ serialisation_indices' = indices
                   /\ ser_stack' = IF initial_sets = {} THEN rest
                                   ELSE Append(rest, Frame(new_accepted_set, top.step + 1,
                                                           initial_sets))
    /\ UNCHANGED <<nodes, attacks, op, extensions, solver_pref, ranking, max_depth,
                   catVars, dbsVars, padmVars>>
    /\ UNCHANGED driverVars
    /\ UNCHANGED satVars
    /\ UNCHANGED shapeVars
    /\ UNCHANGED pipeVars
    /\ UNCHANGED utilVars

(***************************************************************************)
(* The end of a for loop: the call returns; when the outermost loop ends   *)
(* the ranking is built.                                                   *)
(***************************************************************************)
SerReturn ==
    /\ op = "ser"
    /\ ser_stack # <<>>
    /\ ser_stack[Len(ser_stack)].todo = {}
    /\ ser_stack' = SubSeq(ser_stack, 1, Len(ser_stack) - 1)
    /\ IF Len(ser_stack) = 1
       THEN /\ ranking' = SerRanking(AF, serialisation_indices)
            /\ op' = "ser_done"
       ELSE UNCHANGED <<ranking, op>>
    /\ UNCHANGED <<nodes, attacks, extensions, solver_pref, serialisation_indices,
                   max_depth, catVars, dbsVars, padmVars>>
    /\ UNCHANGED driverVars
    /\ UNCHANGED satVars
    /\ UNCHANGED shapeVars
    /\ UNCHANGED pipeVars
    /\ UNCHANGED utilVars

RunProbAdmissible ==
    /\ op = "idle"
    /\ \E prob \in Probabilities :
          /\ p' = prob
          /\ scores' = AdmissibleScores(AF, prob)
    /\ op' = "padm"
    /\ UNCHANGED <<nodes, attacks, extensions, solver_pref, ranking, catVars, dbsVars,
                   serVars, log_scores>>
    /\ UNCHANGED driverVars
    /\ UNCHANGED satVars
    /\ UNCHANGED shapeVars
    /\ UNCHANGED pipeVars
    /\ UNCHANGED utilVars

RunProbStable ==
    /\ op = "idle"
    /\ \E prob \in Probabilities :
          /\ p' = prob
          /\ IF LogDefined(prob) /\ LogDefined(RSub(ROne, prob))
             THEN log_scores' = StableScores(AF) /\ op' = "pstable"
             ELSE log_scores' = <<>> /\ op' = "pstable_error"
    /\ UNCHANGED <<nodes, attacks, extensions, solver_pref, ranking, catVars, dbsVars,
                   serVars, scores>>
    /\ UNCHANGED driverVars
    /\ UNCHANGED satVars
    /\ UNCHANGED shapeVars
    /\ UNCHANGED pipeVars
    /\ UNCHANGED utilVars

(***************************************************************************)
(* ProbabilisticSemantics._calculate_scores: the Monte-Carlo loop.  Each   *)
(* random.random() < p is a free choice when 0 < p < 1, never true at      *)
(* p = 0 and always true at p = 1.  (The fixed-size heuristic needs more   *)
(* than 30 arguments.)                                                     *)
(***************************************************************************)
MonteCarloClasses == {"ProbGrounded", "ProbComplete", "ProbPreferred", "ProbIdeal"}

FindExtensionsInSubgraph(class, subgraph, pref) ==
    CASE class = "ProbGrounded" -> GroundedExtensions(subgraph)
      [] class = "ProbComplete" -> CompleteExtensions(subgraph)
      [] class = "ProbPreferred" -> PreferredExtensions(subgraph)
      [] class = "ProbIdeal" -> IdealExtensions(subgraph, pref)

SampleSets(all_nodes, prob) ==
    IF prob = RZero THEN {{}}
    ELSE IF prob = ROne THEN {all_nodes}
    ELSE SUBSET all_nodes

(* Mutant: an argument is counted once for every extension holding it. *)
CountAcceptedPerExtension(counts, exts, all_nodes) ==
    [arg \in all_nodes |->
        counts[arg] + Cardinality({i \in 1..Len(exts) : arg \in exts[i]})]

CountAccepted(counts, exts, all_nodes) ==
    LET credulously_accepted == UNION Range(exts)
    IN [arg \in all_nodes |->
           IF arg \in credulously_accepted THEN counts[arg] + 1 ELSE counts[arg]]

SampleProbabilities == {<<0, 1>>, <<1, 2>>, <<1, 1>>}

MaxSampledArgs == (MaxArgs + 1) \div 2

McStart ==
    /\ op = "idle"
    /\ Cardinality(nodes) <= MaxSampledArgs
    /\ \E class \in MonteCarloClasses, n_samples \in 1..MaxSamples,
          prob \in SampleProbabilities :
          /\ mc_class' = class
          /\ num_samples' = n_samples
          /\ p' = prob
    /\ sample_i' = 0
    /\ acceptance_counts' = [node \in nodes |-> 0]
    /\ op' = "mc"
    /\ UNCHANGED <<nodes, attacks, extensions, solver_pref, ranking, catVars, dbsVars,
                   serVars, scores, log_scores, subgraph_nodes>>
    /\ UNCHANGED <<poolVars, normVars, harnessVars>>
    /\ UNCHANGED satVars
    /\ UNCHANGED shapeVars
    /\ UNCHANGED pipeVars
    /\ UNCHANGED utilVars

McSample ==
    /\ op = "mc"
    /\ sample_i < num_samples
    /\ \E sample \in SampleSets(nodes, p), pref \in SolverPrefs :
          LET subgraph == Subgraph(AF, sample)
              exts == IF sample = {} THEN <<>>
                      ELSE FindExtensionsInSubgraph(mc_class, subgraph, pref)
          IN /\ subgraph_nodes' = sample
             /\ acceptance_counts' = CountAccepted(acceptance_counts, exts, nodes)
    /\ sample_i' = sample_i + 1
    /\ UNCHANGED <<nodes, attacks, op, extensions, solver_pref, ranking, catVars, dbsVars,
                   serVars, padmVars, mc_class, num_samples>>
    /\ UNCHANGED <<poolVars, normVars, harnessVars>>
    /\ UNCHANGED satVars
    /\ UNCHANGED shapeVars
    /\ UNCHANGED pipeVars
    /\ UNCHANGED utilVars

McFinish ==
    /\ op = "mc"
    /\ sample_i = num_samples
    /\ scores' = [node \in nodes |-> Rat(acceptance_counts[node], num_samples)]
    /\ op' = "mc_done"
    /\ UNCHANGED <<nodes, attacks, extensions, solver_pref, ranking, catVars, dbsVars,
                   serVars, log_scores, p, mcVars>>
    /\ UNCHANGED <<poolVars, normVars, harnessVars>>
    /\ UNCHANGED satVars
    /\ UNCHANGED shapeVars
    /\ UNCHANGED pipeVars
    /\ UNCHANGED utilVars

(***************************************************************************)
(* run_semantics.main: the timeout harness, for one framework of a fresh   *)
(* results directory.  The worker is a separate process: it may put a      *)
(* result, put an exception, or be killed before it puts anything; the     *)
(* parent waits in process.join(TIMEOUT_SECONDS).  What a solver returns   *)
(* is opaque to the harness ("result").                                    *)
(***************************************************************************)
FAST_SEMANTICS == <<"Cat", "Dbs", "p-Stable", "p-Admissible">>

SLOW_SEMANTICS == <<"Ser", "p-Complete", "p-Ideal", "p-Grounded", "p-Preferred">>

valid_rankings == {name \in DOMAIN rankings : rankings[name] # "None"}

(* Mutant: the matrices are written although the framework timed out. *)
WritesMatricesDespiteTimeout == Cardinality(valid_rankings) >= 2

WritesMatrices == ~framework_timed_out /\ Cardinality(valid_rankings) >= 2

HarnessStart ==
    /\ op = "idle"
    /\ attacks = {}
    /\ Cardinality(nodes) <= MaxSampledArgs
    /\ op' = "harness"
    /\ \E names \in {FAST_SEMANTICS, FAST_SEMANTICS \o SLOW_SEMANTICS} :
          semantics_to_run_now' = names
    /\ rankings' = <<>>
    /\ framework_timed_out' = FALSE
    /\ h_pc' = "for"
    /\ UNCHANGED <<nodes, attacks, solverVars, mcVars, poolVars, normVars, process,
                   result_queue, h_outcome, timeout_marker, kendall_csv, spearman_csv>>
    /\ UNCHANGED satVars
    /\ UNCHANGED shapeVars
    /\ UNCHANGED pipeVars
    /\ UNCHANGED utilVars

StartProcess ==
    /\ h_pc = "for"
    /\ semantics_to_run_now # <<>>
    /\ result_queue' = <<>>
    /\ process' = "alive"
    /\ h_outcome' = "pending"
    /\ h_pc' = "join"
    /\ UNCHANGED <<nodes, attacks, op, solverVars, mcVars, poolVars, normVars,
                   semantics_to_run_now, rankings, timeout_marker, framework_timed_out,
                   kendall_csv, spearman_csv>>
    /\ UNCHANGED satVars
    /\ UNCHANGED shapeVars
    /\ feeder_item' = "none"
    /\ UNCHANGED utilVars

WorkerPuts ==
    /\ process = "alive"
    /\ \E item \in {"result", "exception"} : result_queue' = Append(result_queue, item)
    /\ process' = "exited"
    /\ UNCHANGED <<nodes, attacks, op, solverVars, mcVars, poolVars, normVars, h_pc,
                   semantics_to_run_now, rankings, h_outcome, timeout_marker,
                   framework_timed_out, kendall_csv, spearman_csv>>
    /\ UNCHANGED satVars
    /\ UNCHANGED shapeVars
    /\ UNCHANGED pipeVars
    /\ UNCHANGED utilVars

(* The worker puts a result that does not fit into the pipe of the queue:
   the feeder thread blocks in the write until the parent reads, and the
   process does not exit before the feeder thread is done.  The parent
   reads only after join() has returned. *)
WorkerPutsLarge ==
    /\ process = "alive"
    /\ \E item \in {"result", "exception"} : feeder_item' = item
    /\ process' = "flushing"
    /\ UNCHANGED <<nodes, attacks, op, solverVars, mcVars, poolVars, normVars, h_pc,
                   semantics_to_run_now, result_queue, rankings, h_outcome, timeout_marker,
                   framework_timed_out, kendall_csv, spearman_csv, satVars, shapeVars>>
    /\ UNCHANGED utilVars

WorkerKilled ==
    /\ process = "alive"
    /\ process' = "exited"
    /\ UNCHANGED <<nodes, attacks, op, solverVars, mcVars, poolVars, normVars, h_pc,
                   semantics_to_run_now, result_queue, rankings, h_outcome, timeout_marker,
                   framework_timed_out, kendall_csv, spearman_csv>>
    /\ UNCHANGED satVars
    /\ UNCHANGED shapeVars
    /\ UNCHANGED pipeVars
    /\ UNCHANGED utilVars

JoinReturns ==
    /\ h_pc = "join"
    /\ process = "exited"
    /\ h_pc' = "get"
    /\ UNCHANGED <<nodes, attacks, op, solverVars, mcVars, poolVars, normVars,
                   semantics_to_run_now, process, result_queue, rankings, h_outcome,
                   timeout_marker, framework_timed_out, kendall_csv, spearman_csv>>
    /\ UNCHANGED satVars
    /\ UNCHANGED shapeVars
    /\ UNCHANGED pipeVars
    /\ UNCHANGED utilVars

JoinTimesOut ==
    /\ h_pc = "join"
    /\ process \in {"alive", "flushing"}
    /\ process' = "terminated"
    /\ timeout_marker' = TRUE
    /\ framework_timed_out' = TRUE
    /\ h_outcome' = "Timeout"
    /\ h_pc' = "after_for"
    /\ UNCHANGED <<nodes, attacks, op, solverVars, mcVars, poolVars, normVars,
                   semantics_to_run_now, result_queue, rankings, kendall_csv, spearman_csv>>
    /\ UNCHANGED satVars
    /\ UNCHANGED shapeVars
    /\ UNCHANGED pipeVars
    /\ UNCHANGED utilVars

QueueGet ==
    /\ h_pc = "get"
    /\ result_queue # <<>>
    /\ LET result == Head(result_queue)
           name == Head(semantics_to_run_now)
       IN IF result = "exception"
          THEN /\ rankings' = (name :> "None") @@ rankings
               /\ h_outcome' = "Error"
          ELSE /\ rankings' = (name :> "ranked") @@ rankings
               /\ h_outcome' = "Completed"
    /\ result_queue' = Tail(result_queue)
    /\ semantics_to_run_now' = Tail(semantics_to_run_now)
    /\ h_pc' = "for"
    /\ UNCHANGED <<nodes, attacks, op, solverVars, mcVars, poolVars, normVars, process,
                   timeout_marker, framework_timed_out, kendall_csv, spearman_csv>>
    /\ UNCHANGED satVars
    /\ UNCHANGED shapeVars
    /\ UNCHANGED pipeVars
    /\ UNCHANGED utilVars

ForExhausted ==
    /\ h_pc = "for"
    /\ semantics_to_run_now = <<>>
    /\ h_pc' = "after_for"
    /\ UNCHANGED <<nodes, attacks, op, solverVars, mcVars, poolVars, normVars,
                   semantics_to_run_now, process, result_queue, rankings, h_outcome,
                   timeout_marker, framework_timed_out, kendall_csv, spearman_csv>>
    /\ UNCHANGED satVars
    /\ UNCHANGED shapeVars
    /\ UNCHANGED pipeVars
    /\ UNCHANGED utilVars

AfterFor ==
    /\ h_pc = "after_for"
    /\ kendall_csv' = WritesMatrices
    /\ spearman_csv' = WritesMatrices
    /\ h_pc' = "next_framework"
    /\ UNCHANGED <<nodes, attacks, op, solverVars, mcVars, poolVars, normVars,
                   semantics_to_run_now, process, result_queue, rankings, h_outcome,
                   timeout_marker, framework_timed_out>>
    /\ UNCHANGED satVars
    /\ UNCHANGED shapeVars
    /\ UNCHANGED pipeVars
    /\ UNCHANGED utilVars

(* calculate_dbs is called with any max_len; on the small frameworks also
   with lengths at which 64-bit path counts are reached. *)
LongLengths == {Int64Bits - 1, Int64Bits}

CalculateDbsStart ==
    /\ op = "idle"
    /\ \E given \in (0..MaxLen) \cup (IF Cardinality(nodes) <= MaxSampledArgs
                                      THEN LongLengths ELSE {}) :
          util_max_len' = EffectiveMaxLen(AF, given)
    /\ sorted_arguments' = <<>>
    /\ IF nodes = {}
       THEN /\ util_vectors' = <<>>
            /\ current_power' = <<>>
            /\ path_length' = 0
            /\ op' = "util_dbs"
       ELSE /\ util_vectors' = [arg \in nodes |-> <<>>]
            /\ current_power' = TransposedAdjacency(AF, Int64Limbs)
            /\ path_length' = 1
            /\ op' = "util_loop"
    /\ UNCHANGED <<nodes, attacks, solverVars, driverVars, satVars, shapeVars, pipeVars>>

(* One iteration of the for loop over path_length; the sort follows the
   last iteration. *)
CalculateDbsStep ==
    /\ op = "util_loop"
    /\ LET num_paths_per_arg == RowSums(AF, current_power, Int64Limbs)
           dis_values == [i \in nodes |->
                             IF path_length % 2 # 0 THEN num_paths_per_arg[i]
                             ELSE WordNeg(num_paths_per_arg[i])]
           appended == [arg \in nodes |-> Append(util_vectors[arg], dis_values[arg])]
       IN /\ util_vectors' = appended
          /\ IF Nnz(AF, current_power, Int64Limbs) = 0 \/ path_length = util_max_len
             THEN /\ sorted_arguments' =
                        StableSort(SortedList(nodes),
                                   [x \in nodes, y \in nodes |->
                                       WordLexLess(appended[x], appended[y])])
                  /\ op' = "util_dbs"
                  /\ UNCHANGED <<current_power, path_length>>
             ELSE /\ current_power' = SparseDot(AF, current_power, Int64Limbs)
                  /\ path_length' = path_length + 1
                  /\ UNCHANGED <<sorted_arguments, op>>
    /\ UNCHANGED <<nodes, attacks, util_max_len, solverVars, driverVars, satVars,
                   shapeVars, pipeVars>>

(***************************************************************************)
(* The shape of a sample: ProbabilisticSemantics._calculate_scores (the    *)
(* sequential path) and main.worker_run_single_sample (the pool worker)    *)
(* each decide from len(all_nodes) whether to draw a fixed number of       *)
(* arguments or to include each argument independently.  Only the number   *)
(* of arguments matters, so a large framework is given by its size.        *)
(***************************************************************************)
FixedSizeThreshold == 30

FixedSampleSize == 16

Samplers == {"sequential", "worker"}

UseFixedSizeHeuristic(path, class, n) ==
    IF path = "sequential"
    THEN n > FixedSizeThreshold /\ class # "ProbGrounded"
    ELSE n > FixedSizeThreshold

SampleSize(n) == IF FixedSampleSize <= n THEN FixedSampleSize ELSE n

LargeSizes == (FixedSizeThreshold - 1)..(FixedSizeThreshold + 2)

DecideSampleShape ==
    /\ op = "idle"
    /\ \E path \in Samplers, class \in MonteCarloClasses,
          n \in LargeSizes \cup {Cardinality(nodes)} :
          /\ sampler' = path
          /\ sampler_class' = class
          /\ all_nodes_len' = n
          /\ use_fixed_size_heuristic' = UseFixedSizeHeuristic(path, class, n)
          /\ sample_size' = IF UseFixedSizeHeuristic(path, class, n) THEN SampleSize(n) ELSE 0
    /\ op' = "shape"
    /\ UNCHANGED <<nodes, attacks, solverVars, driverVars, satVars>>
    /\ UNCHANGED pipeVars
    /\ UNCHANGED utilVars

(***************************************************************************)
(* main.run_prob_for_all_semantics: the pool workers compute one sample    *)
(* each (worker_run_single_sample); imap_unordered hands the finished      *)
(* results to the parent in any order; only the parent touches             *)
(* acceptance_counts.  results_seen records what the parent has consumed.  *)
(***************************************************************************)
WorkerRunSingleSample(class, G, sample, pref) ==
    LET subgraph == Subgraph(G, sample)
        exts == IF sample = {} THEN <<>>
                ELSE FindExtensionsInSubgraph(class, subgraph, pref)
    IN UNION Range(exts)

(* Mutant: an argument already counted is not counted again. *)
AddAcceptedOnce(counts, credulously_accepted_set) ==
    [arg \in DOMAIN counts |->
        IF arg \in credulously_accepted_set /\ counts[arg] = 0 THEN 1 ELSE counts[arg]]

AddAccepted(counts, credulously_accepted_set) ==
    [arg \in DOMAIN counts |->
        IF arg \in credulously_accepted_set THEN counts[arg] + 1 ELSE counts[arg]]

PoolStart ==
    /\ op = "idle"
    /\ Cardinality(nodes) <= MaxSampledArgs
    /\ \E class \in MonteCarloClasses, n_samples \in 1..MaxSamples,
          prob \in SampleProbabilities :
          /\ mc_class' = class
          /\ num_samples' = n_samples
          /\ pending_samples' = n_samples
          /\ p' = prob
    /\ acceptance_counts' = [node \in nodes |-> 0]
    /\ completed_count' = 0
    /\ results_ready' = EmptyBag
    /\ results_seen' = EmptyBag
    /\ op' = "pool"
    /\ UNCHANGED <<nodes, attacks, extensions, solver_pref, ranking, catVars, dbsVars,
                   serVars, scores, log_scores, sample_i, subgraph_nodes, normVars,
                   harnessVars>>
    /\ UNCHANGED satVars
    /\ UNCHANGED shapeVars
    /\ UNCHANGED pipeVars
    /\ UNCHANGED utilVars

WorkerReturns ==
    /\ op = "pool"
    /\ pending_samples > 0
    /\ \E sample \in SampleSets(nodes, p), pref \in SolverPrefs :
          results_ready' =
              results_ready (+) SetToBag({WorkerRunSingleSample(mc_class, AF, sample, pref)})
    /\ pending_samples' = pending_samples - 1
    /\ UNCHANGED <<nodes, attacks, op, solverVars, mcVars, results_seen, completed_count,
                   normVars, harnessVars>>
    /\ UNCHANGED satVars
    /\ UNCHANGED shapeVars
    /\ UNCHANGED pipeVars
    /\ UNCHANGED utilVars

ParentAggregates ==
    /\ op = "pool"
    /\ \E credulously_accepted_set \in BagToSet(results_ready) :
          /\ acceptance_counts' = AddAccepted(acceptance_counts, credulously_accepted_set)
          /\ results_ready' = results_ready (-) SetToBag({credulously_accepted_set})
          /\ results_seen' = results_seen (+) SetToBag({credulously_accepted_set})
    /\ completed_count' = completed_count + 1
    /\ UNCHANGED <<nodes, attacks, op, solverVars, mc_class, num_samples, sample_i,
                   subgraph_nodes, pending_samples, normVars, harnessVars>>
    /\ UNCHANGED satVars
    /\ UNCHANGED shapeVars
    /\ UNCHANGED pipeVars
    /\ UNCHANGED utilVars

PoolFinish ==
    /\ op = "pool"
    /\ pending_samples = 0
    /\ results_ready = EmptyBag
    /\ scores' = [arg \in {a \in nodes : acceptance_counts[a] > 0} |->
                     Rat(acceptance_counts[arg], num_samples)]
    /\ op' = "pool_done"
    /\ UNCHANGED <<nodes, attacks, extensions, solver_pref, ranking, catVars, dbsVars,
                   serVars, log_scores, p, mcVars, poolVars, normVars, harnessVars>>
    /\ UNCHANGED satVars
    /\ UNCHANGED shapeVars
    /\ UNCHANGED pipeVars
    /\ UNCHANGED utilVars

(***************************************************************************)
(* run_semantics.normalize_ranking, applied to what semantics_worker puts  *)
(* on the queue: get_scores() where the class has it, else get_ranking().  *)
(* Arguments are the integers that int(arg) yields.                        *)
(***************************************************************************)
(* x < y for two log-scores, whatever p in (0,1) is: both logarithms are
   negative, so larger coefficients give a smaller score. *)
LogLess(x, y) ==
    IF x.neg_inf THEN ~y.neg_inf
    ELSE /\ ~y.neg_inf
         /\ x.log_p >= y.log_p
         /\ x.log_1_minus_p >= y.log_1_minus_p
         /\ x # y

(* sorted(result, key=lambda arg: (-result[arg], int(arg))) *)
NormalizeDict(keys, less) ==
    StableSort(SortedList(keys),
               [x \in keys, y \in keys |-> less[y, x] \/ (~less[x, y] /\ x < y)])

RECURSIVE RankedArgs(_, _)
RankedArgs(result, i) ==
    IF i > Len(result) THEN <<>>
    ELSE SortedList(result[i]) \o RankedArgs(result, i + 1)

(* Mutant: the arguments the classes do not mention are dropped. *)
MissingArgsDropped(ranked_args, all_args_sorted) == <<>>

MissingArgs(ranked_args, all_args_sorted) ==
    SelectSeq(all_args_sorted, LAMBDA arg : arg \notin Range(ranked_args))

NormalizeList(result, all_args_sorted) ==
    LET ranked_args == RankedArgs(result, 1)
    IN ranked_args \o SortedList(Range(MissingArgs(ranked_args, all_args_sorted)))

NormalizeRanking ==
    /\ norm_kind = "none"
    /\ \/ /\ op \in {"cat", "dbs", "ser_done"}
          /\ norm_kind' = "list"
          /\ normalized' = NormalizeList(ranking, SortedList(nodes))
       \/ /\ op \in {"padm", "mc_done"}
          /\ norm_kind' = "dict"
          /\ normalized' = NormalizeDict(DOMAIN scores,
                               [x \in nodes, y \in nodes |-> RLess(scores[x], scores[y])])
       \/ /\ op = "pstable"
          /\ norm_kind' = "dict"
          /\ normalized' = NormalizeDict(DOMAIN log_scores,
                               [x \in nodes, y \in nodes |-> LogLess(log_scores[x], log_scores[y])])
    /\ UNCHANGED <<nodes, attacks, op, solverVars, mcVars, poolVars, harnessVars>>
    /\ UNCHANGED satVars
    /\ UNCHANGED shapeVars
    /\ UNCHANGED pipeVars
    /\ UNCHANGED utilVars

Next ==
    \/ CalculateDbsStart
    \/ CalculateDbsStep
    \/ DecideSampleShape
    \/ FindInitialSetsStart
    \/ SolverReturnsModel
    \/ SolverUnsat
    \/ RunCat
    \/ RunDbs
    \/ SerStart
    \/ SerVisit
    \/ SerReturn
    \/ RunProbAdmissible
    \/ RunProbStable
    \/ McStart
    \/ McSample
    \/ McFinish
    \/ PoolStart
    \/ WorkerReturns
    \/ ParentAggregates
    \/ PoolFinish
    \/ NormalizeRanking
    \/ HarnessStart
    \/ StartProcess
    \/ WorkerPuts
    \/ WorkerPutsLarge
    \/ WorkerKilled
    \/ JoinReturns
    \/ JoinTimesOut
    \/ QueueGet
    \/ ForExhausted
    \/ AfterFor
    \/ RunGrounded
    \/ RunComplete
    \/ RunPreferred
    \/ RunIdeal

Spec == Init /\ [][Next]_vars

(* The parent and the worker are scheduled and the join deadline passes: a
   step of the harness that can be taken is eventually taken. *)
HarnessNext ==
    \/ StartProcess
    \/ WorkerPuts
    \/ WorkerPutsLarge
    \/ WorkerKilled
    \/ JoinReturns
    \/ JoinTimesOut
    \/ QueueGet
    \/ ForExhausted
    \/ AfterFor

FairSpec == Init /\ [][Next]_vars /\ WF_harnessVars(HarnessNext)

(***************************************************************************)
(* Dung's notions as the glossary states them; the claims compare the      *)
(* solvers' outputs with these.                                            *)
(***************************************************************************)
SetAttacks(G, S, x) == \E s \in S : <<s, x>> \in G.r

ConflictFreeSet(G, S) == ~\E a \in S, b \in S : <<a, b>> \in G.r

SetDefends(G, S, a) == \A b \in G.n : <<b, a>> \in G.r => SetAttacks(G, S, b)

AdmissibleSet(G, S) == ConflictFreeSet(G, S) /\ \A a \in S : SetDefends(G, S, a)

CompleteSet(G, S) ==
    AdmissibleSet(G, S) /\ \A a \in G.n : SetDefends(G, S, a) => a \in S

MaximalOf(SS) == {S \in SS : ~\E T \in SS : S # T /\ S \subseteq T}

CompleteSets(G) == {S \in SUBSET G.n : CompleteSet(G, S)}

PreferredSets(G) == MaximalOf(CompleteSets(G))

InAllOf(SS) == {x \in UNION SS : \A S \in SS : x \in S}

IdealSet(G) ==
    CHOOSE I \in SUBSET InAllOf(PreferredSets(G)) :
        /\ AdmissibleSet(G, I)
        /\ \A J \in SUBSET InAllOf(PreferredSets(G)) : AdmissibleSet(G, J) => J \subseteq I

CharacteristicF(G, S) == {a \in G.n : SetDefends(G, S, a)}

LeastFixedPoint(G) ==
    CHOOSE S \in SUBSET G.n :
        /\ CharacteristicF(G, S) = S
        /\ \A T \in SUBSET G.n : CharacteristicF(G, T) = T => S \subseteq T

NoDuplicates(s) == \A i \in 1..Len(s), j \in 1..Len(s) : s[i] = s[j] => i = j

(* An empty list returned by a finder stands for the empty extension. *)
ReturnedSet == IF extensions = <<>> THEN {} ELSE extensions[1]

(***************************************************************************)
(* C5: the set returned by ProbGrounded._find_extensions_in_subgraph (an   *)
(* empty list standing for the empty set) is the least fixed point of the  *)
(* characteristic function; it is conflict-free, holds every unattacked    *)
(* argument and no self-attacking one.                                     *)
(***************************************************************************)
C5_GroundedIsLeastFixedPoint ==
    op = "grounded" =>
        /\ Len(extensions) <= 1
        /\ ReturnedSet = LeastFixedPoint(AF)
        /\ ConflictFreeSet(AF, ReturnedSet)
        /\ \A a \in nodes : (~\E b \in nodes : <<b, a>> \in attacks) => a \in ReturnedSet
        /\ \A a \in nodes : <<a, a>> \in attacks => a \notin ReturnedSet

(* A run in which the second round accepted a defended, attacked argument
   while another argument stayed out. *)
C5_Witness ==
    /\ op = "grounded"
    /\ \E a \in ReturnedSet : Predecessors(AF, a) # {}
    /\ \E b \in nodes \ ReturnedSet : TRUE

(***************************************************************************)
(* C6: on a non-empty subgraph, self-loops permitted,                      *)
(* ProbComplete._find_extensions_in_subgraph returns exactly the complete  *)
(* extensions, each once.                                                  *)
(***************************************************************************)
C6_CompleteExact ==
    (op = "complete" /\ nodes # {}) =>
        /\ Range(extensions) = CompleteSets(AF)
        /\ NoDuplicates(extensions)

(***************************************************************************)
(* C7: on every subgraph the extensions returned by ProbPreferred are the  *)
(* subset-maximal ones among those ProbComplete returns; they are pairwise *)
(* incomparable and there is at least one.                                 *)
(***************************************************************************)
C7_PreferredIsMaximalComplete ==
    op = "preferred" =>
        /\ Range(extensions) = MaximalOf(Range(CompleteExtensions(AF)))
        /\ \A i \in 1..Len(extensions), j \in 1..Len(extensions) :
              extensions[i] \subseteq extensions[j] => i = j
        /\ Len(extensions) >= 1

(***************************************************************************)
(* C8: the single set returned by ProbIdeal._find_extensions_in_subgraph   *)
(* is admissible in the subgraph and lies inside every preferred           *)
(* extension.                                                              *)
(***************************************************************************)
C8_IdealAdmissibleInPreferred ==
    op = "ideal" =>
        /\ Len(extensions) = 1
        /\ AdmissibleSet(AF, extensions[1])
        /\ extensions[1] \subseteq InAllOf(PreferredSets(AF))

(***************************************************************************)
(* C9: ProbIdeal._find_extensions_in_subgraph returns a one-element list   *)
(* holding the ideal extension: the largest admissible set inside the      *)
(* intersection of the preferred extensions.                               *)
(***************************************************************************)
C9_IdealIsIdealExtension ==
    op = "ideal" => extensions = <<IdealSet(AF)>>


(***************************************************************************)
(* C1: the class list returned by get_ranking() is a partition of the      *)
(* argument set: non-empty classes, pairwise disjoint, covering every      *)
(* argument; also on frameworks with no non-empty admissible set.          *)
(***************************************************************************)
IsPartitionOf(classes, A) ==
    /\ \A i \in 1..Len(classes) : classes[i] # {}
    /\ \A i \in 1..Len(classes), j \in 1..Len(classes) :
          i # j => classes[i] \cap classes[j] = {}
    /\ UNION Range(classes) = A

C1_RankingPartitions ==
    op \in {"cat", "dbs", "ser_done"} => IsPartitionOf(ranking, nodes)

(***************************************************************************)
(* C2: for every non-empty framework and every tolerance and iteration     *)
(* count the constructor accepts, each Cat strength lies in (0, 1] and is  *)
(* 1 exactly when the argument has no attackers.                           *)
(***************************************************************************)
StrengthsWellFormed ==
    \A a \in nodes :
        /\ RLess(RZero, strengths[a])
        /\ ~RLess(ROne, strengths[a])
        /\ (strengths[a] = ROne) <=> (~\E b \in nodes : <<b, a>> \in attacks)

C2_StrengthsAnyParameters ==
    (op = "cat" /\ nodes # {}) => StrengthsWellFormed

(* C2 as amended: the same for every tolerance of at most 1 and every
   iteration count of at least 2 (the defaults 1e-8 and 1000 among them). *)
C2_StrengthsTwoIterations ==
    (op = "cat" /\ nodes # {} /\ max_iterations >= 2 /\ ~RLess(ROne, tolerance))
        => StrengthsWellFormed

(* A run of at least two iterations on a framework with an unattacked
   argument and an attacked one whose attacker is itself attacked. *)
C2_Witness ==
    /\ op = "cat"
    /\ max_iterations >= 2
    /\ ~RLess(ROne, tolerance)
    /\ \E a \in nodes : Predecessors(AF, a) = {}
    /\ \E a \in nodes : \E b \in Predecessors(AF, a) :
          Predecessors(AF, b) # {} /\ RLess(strengths[a], ROne)

(***************************************************************************)
(* C3: entry k of the discussion vector of a is s(k) times the number of   *)
(* attack walks of exactly k edges that end at a (cycles allowed, counted  *)
(* with multiplicity), s(k) = +1 for odd k and -1 for even k; entries are  *)
(* non-negative for odd k and non-positive for even k.                     *)
(***************************************************************************)
RECURSIVE WalksEndingAt(_, _, _)
WalksEndingAt(G, k, a) ==
    IF k = 0 THEN {<<a>>}
    ELSE UNION {{<<b>> \o w : b \in {c \in G.n : <<c, w[1]>> \in G.r}} :
                   w \in WalksEndingAt(G, k - 1, a)}

WalkSign(k) == IF k % 2 = 1 THEN 1 ELSE -1

InitialSetsOf(G) ==
    {S \in SUBSET G.n :
        /\ S # {}
        /\ AdmissibleSet(G, S)
        /\ \A T \in SUBSET S : (T # {} /\ T # S) => ~AdmissibleSet(G, T)}

ReductOf(G, E) == Subgraph(G, {x \in G.n : x \notin E /\ ~SetAttacks(G, E, x)})

RECURSIVE AcceptedAfter(_, _)
AcceptedAfter(G, k) ==
    IF k = 0 THEN {{}}
    ELSE UNION {{E \cup S : S \in InitialSetsOf(ReductOf(G, E))} : E \in AcceptedAfter(G, k - 1)}

StepsReaching(G, a, lastStep) ==
    {k \in 1..lastStep :
        \E E \in AcceptedAfter(G, k - 1) : \E S \in InitialSetsOf(ReductOf(G, E)) : a \in S}

LeastStep(G, a, lastStep) ==
    IF StepsReaching(G, a, lastStep) = {} THEN Infinity
    ELSE CHOOSE k \in StepsReaching(G, a, lastStep) :
             \A j \in StepsReaching(G, a, lastStep) : k <= j

C4_IndexIsLeastStepUpToD ==
    op = "ser_done" =>
        \A a \in nodes : serialisation_indices[a] = LeastStep(AF, a, max_depth)

(* C4 as amended: step 1 is examined whatever D is, so the least step is
   taken over 1..max(D, 1). *)
C4_IndexIsLeastStep ==
    op = "ser_done" =>
        \A a \in nodes :
            serialisation_indices[a] =
                LeastStep(AF, a, IF max_depth >= 1 THEN max_depth ELSE 1)

(* A finished run in which one argument got index 2, one stayed at
   +infinity although it is unattacked in a reduct or attacked, and the
   depth allowed a third step. *)
C4_Witness ==
    /\ op = "ser_done"
    /\ max_depth >= 3
    /\ \E a \in nodes : serialisation_indices[a] = 2
    /\ \E a \in nodes : serialisation_indices[a] = 1
    /\ \E a \in nodes : serialisation_indices[a] = Infinity

(***************************************************************************)
(* C10: the p-Admissible score of a is the probability that {a} is         *)
(* admissible in the random induced subgraph; at p = 1/2 the score times   *)
(* 2^n counts the node subsets containing a in which {a} is admissible.    *)
(***************************************************************************)
RECURSIVE RPow(_, _)
RPow(x, k) == IF k = 0 THEN ROne ELSE RMul(x, RPow(x, k - 1))

SingletonAdmissibleIn(G, a) ==
    {S \in SUBSET G.n : a \in S /\ AdmissibleSet(Subgraph(G, S), {a})}

(* The probability that exactly the arguments of a given set of k exist. *)
SubgraphProbability(G, k, prob) ==
    RMul(RPow(prob, k), RPow(RSub(ROne, prob), Cardinality(G.n) - k))

(* The subgraphs of k arguments are equally likely: sum size by size. *)
ProbSingletonAdmissible(G, a, prob) ==
    RSum([k \in 0..Cardinality(G.n) |->
             RMul(<<Cardinality({S \in SingletonAdmissibleIn(G, a) : Cardinality(S) = k}), 1>>,
                  SubgraphProbability(G, k, prob))],
         0..Cardinality(G.n))

C10_AdmissibleScoreIsProbability ==
    op = "padm" =>
        \A a \in nodes :
            /\ scores[a] = ProbSingletonAdmissible(AF, a, p)
            /\ <<a, a>> \in attacks => scores[a] = RZero
            /\ p = <<1, 2>> =>
                  RMul(scores[a], <<2 ^ Cardinality(nodes), 1>>)
                      = <<Cardinality(SingletonAdmissibleIn(AF, a)), 1>>

(* A framework with a self-attacker, and an argument with one attacker it
   attacks back and one it does not, scored at a p strictly between 0, 1. *)
C10_Witness ==
    /\ op = "padm"
    /\ RLess(RZero, p) /\ RLess(p, ROne)
    /\ \E a \in nodes : <<a, a>> \in attacks
    /\ \E a \in nodes : \E b, c \in Predecessors(AF, a) \ {a} :
          /\ <<a, a>> \notin attacks
          /\ <<a, b>> \in attacks
          /\ <<a, c>> \notin attacks


(***************************************************************************)
(* C11: for p in (0,1) the p-Stable score of a is -infinity when a attacks *)
(* itself and otherwise log p + ((n-1) - out_degree(a)) log(1-p), the      *)
(* logarithm of the probability that {a} is a stable extension of the      *)
(* random induced subgraph; every score is strictly negative, and at       *)
(* p = 1/2 it is log(1/2) (n - out_degree(a)).                             *)
(***************************************************************************)
StableSet(G, S) ==
    ConflictFreeSet(G, S) /\ \A b \in G.n \ S : SetAttacks(G, S, b)

SingletonStableIn(G, a) ==
    {S \in SUBSET G.n : a \in S /\ StableSet(Subgraph(G, S), {a})}

ProbSingletonStable(G, a, prob) ==
    RSum([k \in 0..Cardinality(G.n) |->
             RMul(<<Cardinality({S \in SingletonStableIn(G, a) : Cardinality(S) = k}), 1>>,
                  SubgraphProbability(G, k, prob))],
         0..Cardinality(G.n))

(* exp of a log-score, for p in (0,1); exp(-inf) = 0. *)
ExpOfLogScore(x, prob) ==
    IF x.neg_inf THEN RZero
    ELSE RMul(RPow(prob, x.log_p), RPow(RSub(ROne, prob), x.log_1_minus_p))

C11_StableScoreIsLogProbability ==
    op = "pstable" =>
        \A a \in nodes :
            /\ log_scores[a].neg_inf <=> <<a, a>> \in attacks
            /\ ~log_scores[a].neg_inf =>
                  /\ log_scores[a].log_p = 1
                  /\ log_scores[a].log_1_minus_p
                        = (Cardinality(nodes) - 1) - Cardinality({b \in nodes : <<a, b>> \in attacks})
                  /\ log_scores[a].log_p + log_scores[a].log_1_minus_p
                        = Cardinality(nodes) - Cardinality({b \in nodes : <<a, b>> \in attacks})
                  /\ log_scores[a].log_p >= 0 /\ log_scores[a].log_1_minus_p >= 0
                  /\ log_scores[a].log_p + log_scores[a].log_1_minus_p > 0
            /\ ExpOfLogScore(log_scores[a], p) = ProbSingletonStable(AF, a, p)

(* A framework with a self-attacker, an argument attacking some but not
   all of the others, scored at a p other than 1/2. *)
C11_Witness ==
    /\ op = "pstable"
    /\ p # <<1, 2>>
    /\ \E a \in nodes : <<a, a>> \in attacks
    /\ \E a \in nodes :
          /\ <<a, a>> \notin attacks
          /\ Successors(AF, a) # {}
          /\ log_scores[a].log_1_minus_p >= 1


(***************************************************************************)
(* C12: when 2^|A| < num_samples, get_scores() of a Monte-Carlo semantics  *)
(* returns for each argument the exact sum, over the induced subgraphs in  *)
(* which it is credulously accepted, of p^|G'| (1-p)^(n-|G'|).             *)
(***************************************************************************)
CredulouslyAcceptedIn(class, G, a) ==
    {S \in SUBSET G.n :
        S # {} /\ \A pref \in SolverPrefs :
                     a \in UNION Range(FindExtensionsInSubgraph(class, Subgraph(G, S), pref))}

ExactScore(class, G, a, prob) ==
    RSum([k \in 0..Cardinality(G.n) |->
             RMul(<<Cardinality({S \in CredulouslyAcceptedIn(class, G, a) : Cardinality(S) = k}), 1>>,
                  SubgraphProbability(G, k, prob))],
         0..Cardinality(G.n))

C12_ExactWhenFewSubgraphs ==
    (op = "mc_done" /\ 2 ^ Cardinality(nodes) < num_samples) =>
        \A a \in nodes : scores[a] = ExactScore(mc_class, AF, a, p)

(***************************************************************************)
(* C13: every score of p-Admissible and of the Monte-Carlo semantics lies  *)
(* in [0,1]; throughout the sampling loop a count never exceeds the number *)
(* of samples processed, and one sample raises a count by at most one and  *)
(* only for an argument present in that sample's subgraph.                 *)
(***************************************************************************)
InUnitInterval(x) == ~RLess(x, RZero) /\ ~RLess(ROne, x)

ScoresInUnitInterval ==
    op \in {"padm", "mc_done"} => \A a \in nodes : InUnitInterval(scores[a])

CountsWithinSamples ==
    op \in {"mc", "mc_done"} =>
        /\ sample_i <= num_samples
        /\ \A a \in nodes : acceptance_counts[a] >= 0 /\ acceptance_counts[a] <= sample_i

OneSampleOneIncrement ==
    (op = "mc" /\ sample_i' = sample_i + 1) =>
        \A a \in nodes :
            \/ acceptance_counts'[a] = acceptance_counts[a]
            \/ acceptance_counts'[a] = acceptance_counts[a] + 1 /\ a \in subgraph_nodes'

C13_ScoresAndCountsBounded ==
    /\ [](ScoresInUnitInterval /\ CountsWithinSamples)
    /\ [][OneSampleOneIncrement]_vars

(* A finished run of p-Complete at 0 < p < 1 in which one argument was
   accepted in every sample and another in some but not all. *)
C13_Witness ==
    /\ op = "mc_done"
    /\ mc_class = "ProbComplete"
    /\ num_samples >= 2
    /\ \E a \in nodes : scores[a] = ROne
    /\ \E a \in nodes : RLess(RZero, scores[a]) /\ RLess(scores[a], ROne)


(***************************************************************************)
(* C14: every solver run the harness starts ends, after finite time, in    *)
(* one of the outcomes Completed, Timeout or Error; the harness never      *)
(* blocks forever, also when the worker exits without putting anything on  *)
(* the result queue.                                                       *)
(***************************************************************************)
C14_EveryRunEnds ==
    (h_outcome = "pending") ~> (h_outcome \in {"Completed", "Timeout", "Error"})

(***************************************************************************)
(* C15: if a semantics times out, the worker is terminated, the sentinel   *)
(* is written, no further semantics is started for the framework and       *)
(* neither correlation file is written: a framework never has both a       *)
(* sentinel and result files from the same run.                            *)
(***************************************************************************)
TimeoutLeavesNoResults ==
    /\ h_outcome = "Timeout" => timeout_marker
    /\ timeout_marker =>
          /\ process = "terminated"
          /\ framework_timed_out
          /\ h_pc \in {"after_for", "next_framework"}
          /\ ~kendall_csv /\ ~spearman_csv

NothingStartedAfterTimeout ==
    timeout_marker => UNCHANGED <<process, semantics_to_run_now, rankings, timeout_marker>>

C15_TimeoutDiscardsFramework ==
    [](TimeoutLeavesNoResults) /\ [][NothingStartedAfterTimeout]_vars

(* The framework was left after a timeout although two rankings had been
   computed before it. *)
C15_Witness ==
    /\ h_pc = "next_framework"
    /\ timeout_marker
    /\ Cardinality(valid_rankings) >= 2
    /\ semantics_to_run_now # <<>>


(***************************************************************************)
(* C16: normalize_ranking returns a list holding every argument exactly    *)
(* once.  For a score map: descending score, ties by ascending identifier, *)
(* -infinity last.  For a class list: classes in the given order, each in  *)
(* ascending identifier order, then the absent arguments in ascending      *)
(* identifier order.                                                       *)
(***************************************************************************)
PositionOf(a) == CHOOSE i \in 1..Len(normalized) : normalized[i] = a

ClassOf(a) == CHOOSE i \in 1..Len(ranking) : a \in ranking[i]

EveryArgumentOnce ==
    Len(normalized) = Cardinality(nodes) /\ Range(normalized) = nodes

DictOrder(less) ==
    \A i \in 1..Len(normalized), j \in 1..Len(normalized) :
        i < j => \/ less[normalized[j], normalized[i]]
                 \/ /\ ~less[normalized[i], normalized[j]]
                    /\ normalized[i] < normalized[j]

ListOrder ==
    LET present == UNION Range(ranking)
    IN \A a \in nodes, b \in nodes :
          /\ (a \in present /\ b \in present /\ ClassOf(a) < ClassOf(b))
                => PositionOf(a) < PositionOf(b)
          /\ (a \in present /\ b \in present /\ ClassOf(a) = ClassOf(b) /\ a < b)
                => PositionOf(a) < PositionOf(b)
          /\ (a \in present /\ b \notin present) => PositionOf(a) < PositionOf(b)
          /\ (a \notin present /\ b \notin present /\ a < b)
                => PositionOf(a) < PositionOf(b)

C16_NormalizedRanking ==
    norm_kind # "none" =>
        /\ EveryArgumentOnce
        /\ norm_kind = "list" => ListOrder
        /\ (norm_kind = "dict" /\ op # "pstable") =>
              DictOrder([x \in nodes, y \in nodes |-> RLess(scores[x], scores[y])])
        /\ (norm_kind = "dict" /\ op = "pstable") =>
              /\ DictOrder([x \in nodes, y \in nodes |-> LogLess(log_scores[x], log_scores[y])])
              /\ \A i \in 1..Len(normalized), j \in 1..Len(normalized) :
                    (log_scores[normalized[i]].neg_inf /\ i < j)
                        => log_scores[normalized[j]].neg_inf

(* A class list that mentions none of several arguments. *)
C16_Witness ==
    /\ norm_kind = "list"
    /\ Cardinality(nodes) >= 2
    /\ UNION Range(ranking) # nodes
    /\ Len(normalized) >= 2

(***************************************************************************)
(* C19: when the equivalence classes a solver returns do not cover every   *)
(* argument, processing the result aborts with an error; an incomplete     *)
(* partition is never silently turned into a ranking.                      *)
(***************************************************************************)
C19_IncompletePartitionAborts ==
    (norm_kind # "none" /\ op \in {"cat", "dbs", "ser_done"}
        /\ UNION Range(ranking) # nodes) => norm_kind = "aborted"


(***************************************************************************)
(* C17: for the non-sampling semantics two runs on the same AF with the    *)
(* same parameters return the same scores, vectors, indices and rankings;  *)
(* Ser's result depends neither on the order in which the SAT solver       *)
(* yields models nor on the order in which initial sets are explored.      *)
(* Every run is compared with one fixed run.                               *)
(***************************************************************************)
RECURSIVE FixedOrderLoop(_, _, _, _, _, _)
RECURSIVE FixedOrderExplore(_, _, _, _, _)
FixedOrderLoop(G, indices, accepted_set, step, depth, todo) ==
    IF todo = {} THEN indices
    ELSE LET s_i == CHOOSE s \in todo : TRUE
             updated == [arg \in G.n |->
                            IF arg \in s_i THEN Min(indices[arg], step) ELSE indices[arg]]
             explored == FixedOrderExplore(G, updated, accepted_set \cup s_i, step + 1, depth)
         IN FixedOrderLoop(G, explored, accepted_set, step, depth, todo \ {s_i})

FixedOrderExplore(G, indices, accepted_set, step, depth) ==
    LET initial_sets == ExploreEntry(G, indices, accepted_set, step, depth, "small")
    IN IF initial_sets = {} THEN indices
       ELSE FixedOrderLoop(G, indices, accepted_set, step, depth, initial_sets)

FixedOrderSer(G, depth) ==
    LET initial_sets_step1 == Range(FindInitialSetsSat(G, "small"))
        first == [arg \in G.n |-> IF arg \in UNION initial_sets_step1 THEN 1 ELSE Infinity]
        indices == FixedOrderLoop(G, first, {}, 1, depth, initial_sets_step1)
    IN IF initial_sets_step1 = {}
       THEN [indices |-> first, ranking |-> <<>>]
       ELSE [indices |-> indices, ranking |-> SerRanking(G, indices)]

C17_NonSamplingDeterministic ==
    /\ op = "ser_done" =>
          /\ serialisation_indices = FixedOrderSer(AF, max_depth).indices
          /\ ranking = FixedOrderSer(AF, max_depth).ranking
    /\ op = "cat" =>
          /\ strengths = CalculateStrengths(AF, tolerance, max_iterations)
          /\ ranking = BuildRanking(AF, strengths, tolerance)
    /\ op = "dbs" =>
          /\ discussion_vectors = DiscussionVectors(AF, max_path_length)
          /\ ranking = DbsRanking(AF, discussion_vectors)
    /\ op = "padm" => scores = AdmissibleScores(AF, p)
    /\ op = "pstable" => log_scores = StableScores(AF)

(* A finished Ser run with several initial sets to choose from at step 1,
   a second step that assigned an index, and the solver yielding its
   models in the other order than the fixed run. *)
C17_Witness ==
    /\ op = "ser_done"
    /\ solver_pref = "large"
    /\ Cardinality(InitialSetsOf(AF)) >= 2
    /\ \E a \in nodes : serialisation_indices[a] = 2


(***************************************************************************)
(* C18: in the parallel Monte-Carlo driver the counts and scores depend    *)
(* only on the multiset of accepted-argument sets the workers return, not  *)
(* on the order of delivery; exactly num_samples results are aggregated,   *)
(* each once, and no count update is lost.                                 *)
(***************************************************************************)
TimesAccepted(a, results) ==
    IntSum([set \in BagToSet(results) |-> IF a \in set THEN CopiesIn(set, results) ELSE 0],
           BagToSet(results))

CountsFollowMultiset ==
    op \in {"pool", "pool_done"} =>
        /\ \A a \in nodes : acceptance_counts[a] = TimesAccepted(a, results_seen)
        /\ completed_count = BagCardinality(results_seen)
        /\ completed_count + BagCardinality(results_ready) + pending_samples = num_samples

AllResultsAggregated ==
    op = "pool_done" =>
        /\ completed_count = num_samples
        /\ DOMAIN scores = {a \in nodes : TimesAccepted(a, results_seen) > 0}
        /\ \A a \in DOMAIN scores :
              scores[a] = Rat(TimesAccepted(a, results_seen), num_samples)

OneResultPerStep ==
    (op = "pool" /\ completed_count' # completed_count) =>
        /\ completed_count' = completed_count + 1
        /\ BagCardinality(results_ready') = BagCardinality(results_ready) - 1

C18_AggregationOrderIndependent ==
    /\ [](CountsFollowMultiset /\ AllResultsAggregated)
    /\ [][OneResultPerStep]_vars

(* A finished run in which the workers returned different sets and one
   argument was accepted by more than one of them. *)
C18_Witness ==
    /\ op = "pool_done"
    /\ Cardinality(BagToSet(results_seen)) >= 2
    /\ \E a \in nodes : acceptance_counts[a] >= 2 /\ acceptance_counts[a] < num_samples


(***************************************************************************)
(* C20: Cat.get_ranking() lists the classes best first, in descending      *)
(* order of strength: walking the arguments in descending-strength order   *)
(* (equal strengths in the order of the argument list), an argument joins  *)
(* the class of its predecessor exactly when their strengths differ by     *)
(* less than the tolerance and otherwise starts the next class.  On AF_ex  *)
(* the ranking is {1,6}, {7}, {8}, {2,5}, {3}, {4}.                        *)
(***************************************************************************)
StrongerThan(b, a) ==
    \/ RLess(strengths[a], strengths[b])
    \/ /\ ~RLess(strengths[b], strengths[a])
       /\ b < a

DescendingPlace(a) == 1 + Cardinality({b \in nodes : StrongerThan(b, a)})

ArgumentAtPlace(i) == CHOOSE a \in nodes : DescendingPlace(a) = i

CatGroupsByTolerance ==
    op = "cat" =>
        /\ nodes = {} => ranking = <<>>
        /\ \A a \in nodes : \E i \in 1..Len(ranking) : a \in ranking[i]
        /\ nodes # {} => ClassOf(ArgumentAtPlace(1)) = 1
        /\ \A i \in 2..Cardinality(nodes) :
              LET prev_arg == ArgumentAtPlace(i - 1)
                  curr_arg == ArgumentAtPlace(i)
              IN IF RLess(RAbs(RSub(strengths[curr_arg], strengths[prev_arg])), tolerance)
                 THEN ClassOf(curr_arg) = ClassOf(prev_arg)
                 ELSE ClassOf(curr_arg) = ClassOf(prev_arg) + 1
        /\ \A i \in 1..Len(ranking), j \in 1..Len(ranking) :
              i < j => \A a \in ranking[i], b \in ranking[j] :
                          ~RLess(strengths[a], strengths[b])

CatRankingOnAFex ==
    (op = "cat" /\ AF = AF_ex
        /\ max_iterations >= 4 /\ tolerance = <<1, 1000>>) =>
        ranking = <<{1, 6}, {7}, {8}, {2, 5}, {3}, {4}>>

FirstDifference(u, v) == CHOOSE k \in 1..Len(u) : u[k] # v[k] /\ \A j \in 1..(k - 1) : u[j] = v[j]

LexicographicallyBelow(u, v) == u # v /\ u[FirstDifference(u, v)] < v[FirstDifference(u, v)]

DbsClassesAscending ==
    op = "dbs" =>
        /\ nodes = {} => ranking = <<>>
        /\ \A a \in nodes : \E i \in 1..Len(ranking) : a \in ranking[i]
        /\ \A i \in 1..Len(ranking) : ranking[i] # {} /\ ranking[i] \subseteq nodes
        /\ \A a \in nodes, b \in nodes :
              /\ ClassOf(a) = ClassOf(b) <=> discussion_vectors[a] = discussion_vectors[b]
              /\ ClassOf(a) < ClassOf(b) <=>
                    LexicographicallyBelow(discussion_vectors[a], discussion_vectors[b])

DbsRankingOnAFex ==
    (op = "dbs" /\ AF = AF_ex /\ max_path_length >= 3) =>
        ranking = <<{1, 6}, {7}, {2, 5}, {8}, {3}, {4}>>

C21_DbsRankingAscendingVectors == DbsClassesAscending /\ DbsRankingOnAFex

(* Arguments with the same first entry are separated by a later entry, and
   two arguments with equal vectors share a class. *)
C21_Witness ==
    /\ op = "dbs"
    /\ Len(ranking) >= 3
    /\ \E a \in nodes, b \in nodes :
          /\ ClassOf(a) < ClassOf(b)
          /\ discussion_vectors[a][1] = discussion_vectors[b][1]
    /\ \E i \in 1..Len(ranking) : Cardinality(ranking[i]) >= 2

(***************************************************************************)
(* C22: on every non-empty (sub)graph Ser._find_found_sets_sat           *)
(* terminates and returns exactly the initial sets of the graph, each      *)
(* once, whatever models the solver hands back; blocking a found model     *)
(* never removes an initial set that has not been found yet.               *)
(***************************************************************************)
ReturnsExactlyInitialSets ==
    op = "sat_done" =>
        /\ Range(found_sets) = InitialSetsOf(SatGraph)
        /\ NoDuplicates(found_sets)

BlockingKeepsUnfoundInitialSets ==
    op = "sat" =>
        /\ InitialSetsOf(SatGraph) \ Range(found_sets) \subseteq SolverModels
        /\ Range(found_sets) \subseteq InitialSetsOf(SatGraph)

RemainingModels(clauses) ==
    Cardinality(Models(SatGraph, BaseClauses(SatGraph) \cup clauses))

EveryModelShrinksSearch ==
    (op = "sat" /\ sat_clauses' # sat_clauses) =>
        RemainingModels(sat_clauses') < RemainingModels(sat_clauses)

C22_FindsExactlyInitialSets ==
    /\ [](ReturnsExactlyInitialSets /\ BlockingKeepsUnfoundInitialSets)
    /\ [][EveryModelShrinksSearch]_vars

(* A finished search on a proper subgraph in which the solver first handed
   back a non-minimal admissible set and two initial sets were found. *)
C22_Witness ==
    /\ op = "sat_done"
    /\ sat_nodes # nodes
    /\ Len(found_sets) >= 2
    /\ \E c \in sat_clauses : {-l : l \in c} \notin Range(found_sets)

(***************************************************************************)
(* C23: the pruning of Ser._explore_sequences_pruned never changes the     *)
(* result: for every AF, depth and exploration order the final indices     *)
(* equal those of the same exploration without the pruning test.           *)
(***************************************************************************)
RECURSIVE UnprunedLoop(_, _, _, _, _, _)
RECURSIVE UnprunedExplore(_, _, _, _, _)
UnprunedLoop(G, indices, accepted_set, step, depth, todo) ==
    IF todo = {} THEN indices
    ELSE LET s_i == CHOOSE s \in todo : TRUE
             updated == [arg \in G.n |->
                            IF arg \in s_i /\ step < indices[arg] THEN step
                            ELSE indices[arg]]
             explored == UnprunedExplore(G, updated, accepted_set \cup s_i, step + 1, depth)
         IN UnprunedLoop(G, explored, accepted_set, step, depth, todo \ {s_i})

UnprunedExplore(G, indices, accepted_set, step, depth) ==
    IF step > depth THEN indices
    ELSE UnprunedLoop(G, indices, accepted_set, step, depth,
                      InitialSetsOf(ReductOf(G, accepted_set)))

UnprunedSer(G, depth) ==
    LET initial_sets_step1 == InitialSetsOf(G)
        first == [arg \in G.n |-> IF arg \in UNION initial_sets_step1 THEN 1 ELSE Infinity]
    IN UnprunedLoop(G, first, {}, 1, depth, initial_sets_step1)

C23_PruningKeepsIndices ==
    op = "ser_done" => serialisation_indices = UnprunedSer(AF, max_depth)

(* A finished run in which a call was pruned although the depth allowed it
   and its reduct has initial sets: every argument of the reduct of a
   step-1 initial set already had index 1 when the call was made. *)
C23_Witness ==
    /\ op = "ser_done"
    /\ max_depth >= 2
    /\ \E S \in InitialSetsOf(AF) :
          /\ InitialSetsOf(ReductOf(AF, S)) # {}
          /\ \A a \in ReductOf(AF, S).n : serialisation_indices[a] <= 1

(***************************************************************************)
(* C24: constructing Ser terminates; each recursive call of                *)
(* _explore_sequences_pruned receives a strictly larger accepted set than  *)
(* its caller, no reduct is computed at a step greater than D, and every   *)
(* finite serialisation index lies in 1..D.                                *)
(***************************************************************************)
CallsGetLargerAcceptedSets ==
    op = "ser" =>
        \A i \in 1..Len(ser_stack) :
            /\ \A s_i \in ser_stack[i].todo :
                  s_i # {} /\ s_i \cap ser_stack[i].accepted = {}
            /\ i >= 2 =>
                  /\ ser_stack[i - 1].accepted \subseteq ser_stack[i].accepted
                  /\ ser_stack[i - 1].accepted # ser_stack[i].accepted
                  /\ ser_stack[i].step = ser_stack[i - 1].step + 1

NoReductBeyondDepth ==
    op = "ser" => \A i \in 2..Len(ser_stack) : ser_stack[i].step <= max_depth

FiniteIndicesWithin(last_step) ==
    op \in {"ser", "ser_done"} =>
        \A a \in nodes :
            serialisation_indices[a] # Infinity => serialisation_indices[a] \in 1..last_step

(* The work left: the number of initial sets each loop in progress has
   still to visit, outermost loop first, then the number of loops.  A loop
   iteration lowers the entry of its own loop and touches only deeper ones;
   a return leaves the entries and removes a loop. *)
WorkLeft(stack) == [i \in 1..(Cardinality(nodes) + 1) |->
                       IF i <= Len(stack) THEN Cardinality(stack[i].todo) ELSE 0]

WorkShrinks(before, after) ==
    \/ LexicographicallyBelow(WorkLeft(after), WorkLeft(before))
    \/ WorkLeft(after) = WorkLeft(before) /\ Len(after) < Len(before)

SerStepsTowardsEnd ==
    (op = "ser" /\ <<ser_stack, serialisation_indices, op>>' # <<ser_stack, serialisation_indices, op>>) =>
        /\ Len(ser_stack) <= Cardinality(nodes) + 1
        /\ WorkShrinks(ser_stack, ser_stack')
        /\ ser_stack' = <<>> <=> op' = "ser_done"

SerAlwaysHasAStep ==
    op = "ser" => ser_stack # <<>>

C24_SerTerminatesWithinDepth ==
    /\ [](/\ CallsGetLargerAcceptedSets
          /\ NoReductBeyondDepth
          /\ SerAlwaysHasAStep
          /\ FiniteIndicesWithin(max_depth))
    /\ [][SerStepsTowardsEnd]_vars

(* C24 as amended: step 1 is examined whatever D is, so the finite indices
   lie in 1..max(D, 1). *)
C24_SerTerminatesWithinDepthOrOne ==
    /\ [](/\ CallsGetLargerAcceptedSets
          /\ NoReductBeyondDepth
          /\ SerAlwaysHasAStep
          /\ FiniteIndicesWithin(IF max_depth >= 1 THEN max_depth ELSE 1))
    /\ [][SerStepsTowardsEnd]_vars

(* A recursive call two levels deep at the depth limit, with an index equal
   to the limit. *)
C24_Witness ==
    /\ op = "ser"
    /\ Len(ser_stack) >= 3
    /\ ser_stack[Len(ser_stack)].step = max_depth
    /\ \E a \in nodes : serialisation_indices[a] = max_depth

(***************************************************************************)
(* C27: for every Monte-Carlo semantics the sample shape is decided by the *)
(* number of arguments alone: above 30 arguments every sample has exactly  *)
(* min(16, |A|) arguments, otherwise each argument is included             *)
(* independently; the sequential path and the pool worker apply the same   *)
(* rule to the same semantics.                                             *)
(***************************************************************************)
C27_SampleShapeBySizeAlone ==
    op = "shape" =>
        /\ use_fixed_size_heuristic <=> all_nodes_len > 30
        /\ use_fixed_size_heuristic =>
              sample_size = (IF all_nodes_len < 16 THEN all_nodes_len ELSE 16)
        /\ \A path \in Samplers :
              UseFixedSizeHeuristic(path, sampler_class, all_nodes_len)
                  = use_fixed_size_heuristic

(***************************************************************************)
(* C28: if the worker finishes and hands its result to the queue before    *)
(* the deadline, the harness reports Completed with that result and never  *)
(* Timeout, whatever the size of the result.                               *)
(***************************************************************************)
WorkerHandedResult == feeder_item = "result" \/ "result" \in Range(result_queue)

C28_HandedResultNeverTimesOut ==
    WorkerHandedResult => h_outcome # "Timeout"

(***************************************************************************)
(* C29: on every subgraph, self-loops permitted,                           *)
(* _find_admissible_recursively of ProbComplete and of ProbPreferred       *)
(* returns exactly the admissible sets of the subgraph, each once: every   *)
(* returned set is conflict-free and defends its members, and every        *)
(* admissible set, the empty set included, is returned.                    *)
(***************************************************************************)
C29_FindsExactlyAdmissibleSets ==
    op \in {"complete", "preferred"} =>
        LET admissible_sets == FindAdmissibleRecursively(AF, SortedList(nodes))
        IN /\ \A i \in 1..Len(admissible_sets) :
                 /\ ConflictFreeSet(AF, admissible_sets[i])
                 /\ \A a \in admissible_sets[i] : SetDefends(AF, admissible_sets[i], a)
           /\ \A S \in SUBSET nodes : AdmissibleSet(AF, S) => S \in Range(admissible_sets)
           /\ NoDuplicates(admissible_sets)

(***************************************************************************)
(* C30: at every call of Ser._explore_sequences_pruned the accepted set is *)
(* non-empty and admissible in the original AF, and the node set of the    *)
(* reduct is disjoint from the accepted set and from everything the        *)
(* accepted set attacks; so every initial set found in the reduct is       *)
(* disjoint from the accepted set and their union is conflict-free.        *)
(***************************************************************************)
CallArgumentOk(accepted_set) ==
    /\ accepted_set # {}
    /\ AdmissibleSet(AF, accepted_set)
    /\ \A x \in NodesForReduct(AF, accepted_set) :
          x \notin accepted_set /\ ~SetAttacks(AF, accepted_set, x)

C30_AcceptedSetsAdmissible ==
    op = "ser" =>
        \A i \in 1..Len(ser_stack) :
            /\ i >= 2 => CallArgumentOk(ser_stack[i].accepted)
            /\ \A s_i \in ser_stack[i].todo :
                  /\ s_i \subseteq NodesForReduct(AF, ser_stack[i].accepted)
                  /\ s_i \cap ser_stack[i].accepted = {}
                  /\ ConflictFreeSet(AF, ser_stack[i].accepted \cup s_i)
                  /\ CallArgumentOk(ser_stack[i].accepted \cup s_i)

(* A call in progress whose accepted set attacks an argument and whose loop
   is about to extend the accepted set by an initial set of its reduct. *)
C30_Witness ==
    /\ op = "ser"
    /\ Len(ser_stack) >= 2
    /\ \E x \in nodes : SetAttacks(AF, ser_stack[Len(ser_stack)].accepted, x)
    /\ ser_stack[Len(ser_stack)].todo # {}

(***************************************************************************)
(* C25: every discussion vector has length exactly L, for every argument   *)
(* and for both implementations (the Dbs class and af_parser's             *)
(* calculate_dbs): when a matrix power becomes all-zero before L, the      *)
(* remaining positions are filled with 0.                                  *)
(***************************************************************************)
C25_VectorsHaveLengthL ==
    /\ op = "dbs" =>
          \A a \in nodes : Len(discussion_vectors[a]) = max_path_length
    /\ op = "util_dbs" =>
          \A a \in nodes : Len(util_vectors[a]) = util_max_len

(***************************************************************************)
(* C26: a path count beyond the 64-bit signed range is detected and either *)
(* saturated or computed with arbitrary precision; no entry of a           *)
(* discussion vector is a wrapped value, so entries at odd positions are   *)
(* never negative and entries at even positions never positive.            *)
(***************************************************************************)
C26_NoWrappedEntry ==
    op \in {"util_loop", "util_dbs"} =>
        \A a \in nodes : \A k \in 1..Len(util_vectors[a]) :
            LET entry == util_vectors[a][k]
            IN /\ k % 2 = 1 => ~WordIsNegative(entry)
               /\ k % 2 = 0 => (entry = WordOf(0, Int64Limbs) \/ WordIsNegative(entry))

=============================================================================
